---------------------------- MODULE Spec2Model ----------------------------
(***************************************************************************)
(* A model of the project-generation core of CUGL's build scripts:         *)
(*   - parse_pbxproj / write_pbxproj   (cugl/sdlapp/scripts/apple.py)      *)
(*   - UUIDService, insert_filetree    (cugl/scripts/util.py)              *)
(*                                                                         *)
(* Text is a sequence of lines.  Every line read from a file is a          *)
(* non-empty string ending in a line break; a line is abstracted to what   *)
(* the parser can observe of it: the banner it contains (if any), its      *)
(* brace parity, and whether it is exactly the empty line.  A block (a     *)
(* Python str built by accum+line) is the sequence of its lines.           *)
(***************************************************************************)
EXTENDS Integers, Sequences, FiniteSets, TLC

(***************************************************************************)
(* Bounds of the model.                                                    *)
(***************************************************************************)
\* the lines by which the input may differ from the plain file: lines it
\* holds beyond the section banners, banner or separator lines it lacks
MaxEdits == 2

(***************************************************************************)
(* apple.py: the PBX schema and the lines of a project file.               *)
(***************************************************************************)
PBX_SEQUENCE ==
    << "PBXHeader", "PBXBuildFile", "PBXContainerItemProxy", "PBXFileReference",
       "PBXFrameworksBuildPhase", "PBXGroup", "PBXNativeTarget", "PBXProject",
       "PBXReferenceProxy", "PBXResourcesBuildPhase", "PBXSourcesBuildPhase",
       "XCBuildConfiguration", "XCConfigurationList", "PBXFooter" >>

NumSections == Len(PBX_SEQUENCE)

\* '/* Begin <PBX_SEQUENCE[s]> section */\n'
BeginLine(s) == [k |-> "begin", s |-> s]
\* '/* End <PBX_SEQUENCE[s]> section */\n'
EndLine(s) == [k |-> "end", s |-> s]
\* '\n'
BlankLine == [k |-> "blank", s |-> 0]
\* a line with one more '{' than '}', e.g. '\t\tAB12 = {\n'
OpenLine == [k |-> "open", s |-> 0]
\* a line with one more '}' than '{', e.g. '\t\t};\n'
CloseLine == [k |-> "close", s |-> 0]
\* a non-empty line with as many '{' as '}', e.g. '\t\tAB12 = {isa = PBXBuildFile; };\n'
FlatLine == [k |-> "flat", s |-> 0]

BodyLines == {OpenLine, CloseLine, FlatLine, BlankLine}

\* The value None of Python.  accum is None or a non-empty str (every line
\* read is non-empty), so the empty sequence is free to stand for None.
None == << >>

\* util.group_parity(line,'{}')
group_parity(line) ==
    CASE line.k = "open"  -> 1
      [] line.k = "close" -> -1
      [] OTHER            -> 0

\* ('/* Begin '+PBX_SEQUENCE[index+1]+' section */') in line
HasBegin(line, s) == line.k = "begin" /\ line.s = s
\* ('/* End '+state+' section */') in line
HasEnd(line, s) == line.k = "end" /\ line.s = s

IsEdge(i) == i \in {1, NumSections}

\* block.append(item) on the list contents[state]
AppendBlock(cont, i, item) == [cont EXCEPT ![i] = Append(@, item)]

\* "if accum:" before the flush of a section change
FlushOnAdvance(cont, i, acc) ==
    IF acc # None THEN AppendBlock(cont, i, acc) ELSE cont

\* (mutant) a new key is put before the keys the dictionary holds
DictInsert_front(keys, k) ==
    IF \E j \in 1..Len(keys) : keys[j] = k THEN keys ELSE << k >> \o keys

\* "contents[state] = block" on the keys of the dictionary, kept in the
\* order of their insertion: a key the dictionary holds keeps its place, a
\* new key goes last
DictInsert(keys, k) ==
    IF \E j \in 1..Len(keys) : keys[j] = k THEN keys ELSE Append(keys, k)

\* (mutant) the depth is not checked
BraceError_never(b) == FALSE

\* "brace < 0" : the braces mismatch
BraceError(b) == b < 0

(***************************************************************************)
(* One iteration of "for line in file" of parse_pbxproj, on the parser     *)
(* state st = [index, contents, keys, accum, brace, between, failed].      *)
(* keys holds the keys of the dictionary in the order of their insertion;  *)
(* contents[i] is the list of blocks stored by the i-th assignment         *)
(* "contents[state] = block".                                              *)
(***************************************************************************)
parse_line(st, line) ==
    LET index    == st.index
        advance  == index # NumSections /\ HasBegin(line, index + 1)
        complete == HasEnd(line, index)
    IN  IF advance \/ (complete /\ index = NumSections - 1)
        THEN [st EXCEPT !.contents = Append(FlushOnAdvance(st.contents, index, st.accum), << >>),
                        !.keys = DictInsert(st.keys, PBX_SEQUENCE[index + 1]),
                        !.index = index + 1,
                        !.accum = None,
                        !.brace = 0,
                        !.between = FALSE]
        ELSE IF IsEdge(index)
        THEN [st EXCEPT !.accum = st.accum \o << line >>]
        ELSE IF complete
        THEN IF st.accum # None /\ st.accum # << BlankLine >>
             THEN [st EXCEPT !.contents = AppendBlock(st.contents, index, st.accum),
                             !.between = TRUE]
             ELSE st
        ELSE IF ~ st.between
        THEN LET b   == st.brace + group_parity(line)
                 acc == st.accum \o << line >>
             IN  IF BraceError(b)
                 THEN [st EXCEPT !.brace = b, !.failed = TRUE]
                 ELSE IF b = 0
                 THEN [st EXCEPT !.brace = b,
                                 !.accum = None,
                                 !.contents = IF acc # << BlankLine >>
                                              THEN AppendBlock(st.contents, index, acc)
                                              ELSE st.contents]
                 ELSE [st EXCEPT !.brace = b, !.accum = acc]
        ELSE st

\* The parser state before the first line.
parse_start ==
    [index |-> 1, contents |-> << << >> >>, keys |-> << PBX_SEQUENCE[1] >>,
     accum |-> None, brace |-> 0, between |-> FALSE, failed |-> FALSE]

\* "block.append(accum)" after the loop: the footer flush.
parse_finish(st) == AppendBlock(st.contents, st.index, st.accum)

\* The loop "for line in file" over the lines of text; it stops at the
\* first "return None".
RECURSIVE parse_lines(_, _)
parse_lines(st, text) ==
    IF st.failed \/ text = << >> THEN st
    ELSE parse_lines(parse_line(st, Head(text)), Tail(text))

parse_from(st, text) ==
    LET n == parse_lines(st, text)
    IN  IF n.failed THEN n ELSE [n EXCEPT !.contents = parse_finish(n)]

\* parse_pbxproj on a whole text: [ok |-> FALSE] is the return of None.
parse_pbxproj(text) ==
    LET st == parse_from(parse_start, text)
    IN  [ok |-> ~ st.failed, model |-> IF st.failed THEN << >> ELSE st.contents]

(***************************************************************************)
(* write_pbxproj: the text written for a model.  file.write(None) raises   *)
(* TypeError, reported as ok = FALSE.                                      *)
(***************************************************************************)
RECURSIVE Concat(_)
Concat(blocks) ==
    IF blocks = << >> THEN << >> ELSE Head(blocks) \o Concat(Tail(blocks))

HasNone(blocks) == \E j \in 1..Len(blocks) : blocks[j] = None

write_section(i, blocks) ==
    IF IsEdge(i) THEN Concat(blocks)
    ELSE << BeginLine(i) >> \o Concat(blocks) \o << EndLine(i), BlankLine >>

RECURSIVE write_from(_, _)
write_from(model, i) ==
    IF i > Len(model) THEN << >>
    ELSE write_section(i, model[i]) \o write_from(model, i + 1)

write_pbxproj(model) ==
    [ok   |-> \A i \in 1..Len(model) : ~ HasNone(model[i]),
     text |-> write_from(model, 1)]

(***************************************************************************)
(* The state of one run of parse_pbxproj, and the file it reads.           *)
(***************************************************************************)
VARIABLES
    index,      \* position of the current section in PBX_SEQUENCE
    contents,   \* the dictionary being built: its lists of blocks
    sections,   \* the keys of the dictionary, in the order of their insertion
    emitted,    \* the text written by write_pbxproj at the end of make
    accum,      \* the block being accumulated, or None
    brace,      \* the brace depth
    between,    \* the closing banner of the section was read
    ppc,        \* "scan", "done" (contents returned), "failed" (None returned);
                \* then the step of make that has run, or "raised"
    input,      \* the lines read so far
    pos,        \* the next line of the plain file (Skeleton) to be read
    ins,        \* lines read that are not in the plain file
    om          \* lines of the plain file left out

pvars == << index, contents, sections, emitted, accum, brace, between, ppc, input,
           pos, ins, om >>

\* The plain project file: every content section, empty, in schema order,
\* with an empty line after every closing banner but the last.
RECURSIVE SkeletonFrom(_)
SkeletonFrom(i) ==
    IF i = NumSections - 1 THEN << BeginLine(i), EndLine(i) >>
    ELSE << BeginLine(i), EndLine(i), BlankLine >> \o SkeletonFrom(i + 1)

Skeleton == SkeletonFrom(2)

\* The input varies around the first and the last content section; the
\* sections between them are read as the plain file has them.
MiddleFirst == Len(SkeletonFrom(NumSections - 1)) + 2
MiddleLast == Len(Skeleton) - Len(SkeletonFrom(NumSections - 2)) - 1

ParserState ==
    [index |-> index, contents |-> contents, keys |-> sections, accum |-> accum,
     brace |-> brace, between |-> between, failed |-> FALSE]

PInit ==
    /\ index = 1
    /\ contents = << << >> >>
    /\ sections = << PBX_SEQUENCE[1] >>
    /\ emitted = << >>
    /\ accum = None
    /\ brace = 0
    /\ between = FALSE
    /\ ppc = "scan"
    /\ input = << >>
    /\ pos = 1
    /\ ins = 0
    /\ om = 0

\* The loop body runs on each line of text in turn.
Consume(text) ==
    LET n == parse_lines(ParserState, text)
    IN  /\ index' = n.index
        /\ contents' = n.contents
        /\ sections' = n.keys
        /\ emitted' = emitted
        /\ accum' = n.accum
        /\ brace' = n.brace
        /\ between' = n.between
        /\ ppc' = IF n.failed THEN "failed" ELSE "scan"
        /\ input' = input \o text

\* The loop reads the next line of the plain file.
ReadPlain ==
    /\ ppc = "scan"
    /\ pos <= Len(Skeleton)
    /\ pos # MiddleFirst
    /\ Consume(<< Skeleton[pos] >>)
    /\ pos' = pos + 1
    /\ UNCHANGED << ins, om >>

\* The loop reads the sections between the first and the last content
\* section, line by line, as the plain file has them.
ReadMiddle ==
    /\ ppc = "scan"
    /\ pos = MiddleFirst
    /\ Consume(SubSeq(Skeleton, MiddleFirst, MiddleLast))
    /\ pos' = MiddleLast + 1
    /\ UNCHANGED << ins, om >>

\* The loop reads a line the plain file does not have.
ReadBody ==
    /\ ppc = "scan"
    /\ ins + om < MaxEdits
    /\ \E line \in BodyLines : Consume(<< line >>)
    /\ ins' = ins + 1
    /\ UNCHANGED << pos, om >>

\* The file lacks the next line of the plain file.
OmitPlain ==
    /\ ppc = "scan"
    /\ ins + om < MaxEdits
    /\ pos <= Len(Skeleton)
    /\ pos # MiddleFirst
    /\ pos' = pos + 1
    /\ om' = om + 1
    /\ UNCHANGED << index, contents, sections, emitted, accum, brace, between, ppc,
                    input, ins >>

\* End of file: the footer flush and "return contents".
ReadEOF ==
    /\ ppc = "scan"
    /\ contents' = parse_finish(ParserState)
    /\ ppc' = "done"
    /\ UNCHANGED << index, sections, emitted, accum, brace, between, input, pos, ins, om >>


(***************************************************************************)
(* Claims about parse_pbxproj and write_pbxproj (checked under SpecParse). *)
(***************************************************************************)

\* Well-formed input: a header, then every content section in schema
\* order, each with its two banners on lines of their own around balanced
\* objects (no empty line between objects), at most one empty line after a
\* closing banner, and a footer.
RECURSIVE WellFormedFrom(_, _, _, _)
WellFormedFrom(text, sec, phase, depth) ==
    IF text = << >> THEN phase = "footer"
    ELSE LET l == Head(text)
             rest == Tail(text)
         IN  CASE phase = "header" ->
                    IF l.k \in {"begin", "end"}
                    THEN l = BeginLine(2) /\ WellFormedFrom(rest, 2, "in", 0)
                    ELSE WellFormedFrom(rest, sec, "header", 0)
               [] phase = "first" ->
                    /\ l.k \notin {"begin", "end"}
                    /\ WellFormedFrom(rest, sec, "header", 0)
               [] phase = "in" ->
                    IF l.k \in {"begin", "end"}
                    THEN /\ l = EndLine(sec)
                         /\ depth = 0
                         /\ WellFormedFrom(rest, sec,
                               IF sec = NumSections - 1 THEN "last" ELSE "sep", 0)
                    ELSE /\ depth + group_parity(l) >= 0
                         /\ (l = BlankLine => depth > 0)
                         /\ WellFormedFrom(rest, sec, "in", depth + group_parity(l))
               [] phase = "sep" ->
                    \/ l = BlankLine /\ WellFormedFrom(rest, sec, "gap", 0)
                    \/ l = BeginLine(sec + 1) /\ WellFormedFrom(rest, sec + 1, "in", 0)
               [] phase = "gap" ->
                    l = BeginLine(sec + 1) /\ WellFormedFrom(rest, sec + 1, "in", 0)
               [] phase \in {"last", "footer"} ->
                    /\ l.k \notin {"begin", "end"}
                    /\ WellFormedFrom(rest, sec, "footer", 0)

WellFormed(text) == WellFormedFrom(text, 1, "first", 0)

\* C1: for every text that parse_pbxproj returns a model for, the model
\* can be written back, and parsing what write_pbxproj wrote returns a model
\* with the same sections in the same order holding the same blocks.
C1_RoundTripModel ==
    ppc = "done" =>
        LET w == write_pbxproj(contents)
        IN  /\ w.ok
            /\ parse_pbxproj(w.text).ok
            /\ parse_pbxproj(w.text).model = contents

\* C2: for well-formed input, write_pbxproj applied to the model returned
\* by parse_pbxproj writes the input text back, line for line.
C2_RoundTripText ==
    (ppc = "done" /\ WellFormed(input)) =>
        LET w == write_pbxproj(contents)
        IN  w.ok /\ w.text = input

\* C3: whenever the brace depth counted inside a content section falls
\* below zero, the parse ends with no model returned (and only then): the
\* scan never goes on, and no model is ever returned, with a negative depth,
\* and parse_pbxproj of the text read returns None.
C3_NegativeDepthAborts ==
    /\ (brace < 0) <=> (ppc = "failed")
    /\ ppc = "failed" => ~ parse_pbxproj(input).ok
    /\ ppc = "done" => parse_pbxproj(input).ok

\* C3 witness: the parse was aborted inside a content section, not between
\* banners, at negative depth, with blocks already stored.
C3_Witness ==
    /\ ppc = "failed"
    /\ brace < 0
    /\ ~ IsEdge(index)
    /\ ~ between
    /\ \E i \in 1..Len(contents) : contents[i] # << >>

\* C26: every block of every section of a model returned by parse_pbxproj
\* is a non-empty text, never None (the footer of an input that ends at the
\* last closing banner, and the last block of an input that ends inside a
\* content section, included), so that write_pbxproj can write the model.
C26_NoNoneBlock ==
    ppc = "done" =>
        /\ \A i \in 1..Len(contents) : \A j \in 1..Len(contents[i]) :
              contents[i][j] # None
        /\ write_pbxproj(contents).ok

\* The closing banner of the current content section is among the lines
\* read (a banner is read once: the banners of the file are in schema order).
Closed(text, i) == ~ IsEdge(i) /\ \E k \in 1..Len(text) : text[k] = EndLine(i)

\* C22: once the closing banner of the current content section was read,
\* no line read before the opening banner of the next section changes a
\* block list of the model, whether or not a block was pending at the
\* closing banner.
C22_BetweenMode ==
    [][ (Closed(input, index) /\ input' # input /\ index' = index)
            => contents' = contents ]_pvars

(***************************************************************************)
(* apple.py: make, from the parsed project to the project written back.    *)
(*                                                                         *)
(* The steps between parse_pbxproj and write_pbxproj reach the sections    *)
(* through the dictionary, by name.  A step is the sequence of its         *)
(* accesses: "scan" examines every item of a section (a None item raises   *)
(* TypeError or AttributeError), "get" only looks the section up, "append" *)
(* adds an item at its end, "delete" removes the items at the positions    *)
(* given.  What a step writes into an item in place is not modelled: the   *)
(* blocks of the model are lines known by their braces only.               *)
(***************************************************************************)
\* populate_assets and populate_sources run on no asset, group or file, or
\* on one of each
Populated == {0, 1}

Scan(name) == [sec |-> name, op |-> "scan", item |-> << >>, rems |-> {}]
Get(name) == [sec |-> name, op |-> "get", item |-> << >>, rems |-> {}]
Put(name, item) == [sec |-> name, op |-> "append", item |-> item, rems |-> {}]
Del(name, rems) == [sec |-> name, op |-> "delete", item |-> << >>, rems |-> rems]

\* a one-line object, e.g. a PBXFileReference or PBXBuildFile entry
ObjectEntry == << FlatLine >>
\* the text of a group, from build_groups
GroupEntry == << OpenLine, FlatLine, CloseLine >>

\* pbxproj[name]: the place of the key among the keys, 0 for KeyError
KeyPos(keys, name) ==
    IF \E j \in 1..Len(keys) : keys[j] = name
    THEN CHOOSE j \in 1..Len(keys) : keys[j] = name
    ELSE 0

\* "del section[pos]"
DelAt(section, posn) ==
    [k \in 1..(Len(section) - 1) |-> IF k <= posn THEN section[k] ELSE section[k + 1]]

\* (mutant) the offset is not advanced after a deletion
RECURSIVE delete_loop_stale(_, _, _, _)
delete_loop_stale(section, rems, posn, off) ==
    IF posn < Len(section)
    THEN IF (posn + off) \in rems
         THEN delete_loop_stale(DelAt(section, posn), rems, posn, off)
         ELSE delete_loop_stale(section, rems, posn + 1, off)
    ELSE section

\* filter_targets, the second loop: "while pos < len(section)", on pos and off
RECURSIVE delete_loop(_, _, _, _)
delete_loop(section, rems, posn, off) ==
    IF posn < Len(section)
    THEN IF (posn + off) \in rems
         THEN delete_loop(DelAt(section, posn), rems, posn, off + 1)
         ELSE delete_loop(section, rems, posn + 1, off)
    ELSE section

\* The accesses of a step, in turn, up to the first that raises.
RECURSIVE run_accesses(_, _, _)
run_accesses(keys, cont, acc) ==
    IF acc = << >> THEN [ok |-> TRUE, contents |-> cont]
    ELSE \* the CHOOSE binds the position, looked up once
         CHOOSE r \in
           { IF p = 0 \/ (Head(acc).op = "scan" /\ HasNone(cont[p]))
             THEN [ok |-> FALSE, contents |-> cont]
             ELSE run_accesses(keys,
                     CASE Head(acc).op = "append" -> AppendBlock(cont, p, Head(acc).item)
                       [] Head(acc).op = "delete" ->
                            [cont EXCEPT ![p] = delete_loop(@, Head(acc).rems, 0, 0)]
                       [] OTHER -> cont,
                     Tail(acc))
             : p \in { KeyPos(keys, Head(acc).sec) } } : TRUE

RECURSIVE Repeat(_, _)
Repeat(acc, n) == IF n = 0 THEN << >> ELSE acc \o Repeat(acc, n - 1)

\* reassign_pbxproj: the project path, the asset and source directories,
\* the build settings, the targets, then the display name "for category in
\* pbxproj"
reassign_accesses(keys) ==
    << Scan("PBXFileReference"), Scan("PBXGroup"), Scan("XCBuildConfiguration"),
       Scan("PBXProject"), Scan("XCConfigurationList"), Scan("PBXNativeTarget") >>
    \o [j \in 1..Len(keys) |-> Scan(keys[j])]

\* assign_orientation
orientation_accesses == << Scan("XCBuildConfiguration") >>

\* populate_assets on n assets
assets_accesses(n) ==
    << Scan("PBXNativeTarget") >>
    \o Repeat(<< Put("PBXFileReference", ObjectEntry), Put("PBXBuildFile", ObjectEntry),
                 Put("PBXBuildFile", ObjectEntry) >>, n)
    \o << Scan("PBXGroup"), Get("PBXResourcesBuildPhase") >>

\* populate_sources on g groups below the root and n files, each built for
\* both targets (built) or for none
sources_accesses(g, n, built) ==
    << Scan("PBXGroup") >>
    \o Repeat(<< Put("PBXGroup", GroupEntry) >>, g)
    \o Repeat(<< Put("PBXFileReference", ObjectEntry) >>
              \o (IF built THEN << Put("PBXBuildFile", ObjectEntry),
                                   Put("PBXBuildFile", ObjectEntry) >>
                  ELSE << >>), n)
    \o << Scan("PBXNativeTarget"), Get("PBXSourcesBuildPhase") >>

\* filter_targets: nothing for the target 'apple', else the targets at rems
\* are removed
filter_accesses(apple, rems) ==
    IF apple THEN << >> ELSE << Scan("PBXNativeTarget"), Del("PBXNativeTarget", rems) >>

\* "not state in ['PBXHeader', 'PBXFooter']" is false
IsEdgeName(state) == state \in {"PBXHeader", "PBXFooter"}

\* the banner lines of the section named state
SectionOf(state) == CHOOSE s \in 1..NumSections : PBX_SEQUENCE[s] = state

\* write_pbxproj, "for state in pbxproj": the sections are written in the
\* order of the keys of the dictionary, each under its own name
RECURSIVE write_states(_, _, _)
write_states(keys, cont, j) ==
    IF j > Len(keys) THEN << >>
    ELSE (IF IsEdgeName(keys[j]) THEN Concat(cont[j])
          ELSE << BeginLine(SectionOf(keys[j])) >> \o Concat(cont[j])
               \o << EndLine(SectionOf(keys[j])), BlankLine >>)
         \o write_states(keys, cont, j + 1)

\* A step of make after the parse; an exception ends make.
ProjectStep(from, to, acc) ==
    /\ ppc = from
    /\ \E r \in { run_accesses(sections, contents, acc) } :
          /\ contents' = r.contents
          /\ ppc' = IF r.ok THEN to ELSE "raised"
    /\ UNCHANGED << index, sections, emitted, accum, brace, between, input, pos, ins, om >>

\* reassign_pbxproj(config,pbxproj) on the model returned
ReassignProject == ProjectStep("done", "reassigned", reassign_accesses(sections))

\* reassign_pbxproj(config,None) after a failed parse: TypeError
ReassignNone ==
    /\ ppc = "failed"
    /\ ppc' = "raised"
    /\ UNCHANGED << index, contents, sections, emitted, accum, brace, between, input,
                    pos, ins, om >>

AssignOrientation == ProjectStep("reassigned", "oriented", orientation_accesses)

PopulateProjectAssets ==
    \E n \in Populated : ProjectStep("oriented", "assets", assets_accesses(n))

PopulateProjectSources ==
    \E g \in Populated, n \in Populated, built \in BOOLEAN :
        ProjectStep("assets", "sources", sources_accesses(g, n, built))

FilterTargets ==
    \E apple \in BOOLEAN :
        \E rems \in SUBSET (0..(IF KeyPos(sections, "PBXNativeTarget") = 0 THEN -1
                                ELSE Len(contents[KeyPos(sections, "PBXNativeTarget")]) - 1)) :
            ProjectStep("sources", "filtered", filter_accesses(apple, rems))

\* write_pbxproj(pbxproj,project); file.write(None) raises TypeError
WriteProject ==
    /\ ppc = "filtered"
    /\ IF \A j \in 1..Len(contents) : ~ HasNone(contents[j])
       THEN emitted' = write_states(sections, contents, 1) /\ ppc' = "written"
       ELSE emitted' = emitted /\ ppc' = "raised"
    /\ UNCHANGED << index, contents, sections, accum, brace, between, input, pos, ins, om >>

(***************************************************************************)
(* Claim about the order of the sections (checked under SpecProject).      *)
(***************************************************************************)
IsPrefix(s, t) == Len(s) <= Len(t) /\ \A j \in 1..Len(s) : s[j] = t[j]

\* the names of the sections whose opening banner is in text, in order
RECURSIVE BannersOf(_)
BannersOf(text) ==
    IF text = << >> THEN << >>
    ELSE (IF Head(text).k = "begin" THEN << PBX_SEQUENCE[Head(text).s] >> ELSE << >>)
         \o BannersOf(Tail(text))

\* the names of seq that have banners
RECURSIVE ContentNames(_)
ContentNames(seq) ==
    IF seq = << >> THEN << >>
    ELSE (IF IsEdgeName(Head(seq)) THEN << >> ELSE << Head(seq) >>)
         \o ContentNames(Tail(seq))

\* C20: in every state of the parse and after every step of make that
\* follows it (reassign, orientation, populate, filter_targets), the keys of
\* the model are a prefix of PBX_SEQUENCE in its order, none twice, with one
\* list of blocks each; and the text write_pbxproj writes has the banners of
\* its content sections in that order.
C20_SectionOrder ==
    /\ IsPrefix(sections, PBX_SEQUENCE)
    /\ \A i, j \in 1..Len(sections) : sections[i] = sections[j] => i = j
    /\ Len(contents) = Len(sections)
    /\ ppc = "written" =>
          /\ BannersOf(emitted) = ContentNames(sections)
          /\ IsPrefix(BannersOf(emitted), Tail(PBX_SEQUENCE))

\* C20 witness: a whole project, to which populate added objects, was
\* written with the banners of all its content sections.
C20_Witness ==
    /\ ppc = "written"
    /\ sections = PBX_SEQUENCE
    /\ Len(BannersOf(emitted)) = NumSections - 2
    /\ Len(contents[KeyPos(sections, "PBXFileReference")]) > 0
    /\ Len(emitted) > Len(input)

(***************************************************************************)
(* util.py: UUIDService.                                                   *)
(*                                                                         *)
(* A seed (url) is a number of 1..MaxSeeds.  An identifier is the pair of  *)
(* its format and its digits: an Apple identifier (24 hexadecimal          *)
(* characters) is never equal to a Windows one (36 characters, hyphens).   *)
(* The hash of the library is a fixed function of the seed that is not     *)
(* injective: the seeds u and u + NumIds have the same digits.             *)
(***************************************************************************)
\* the seeds of the model
MaxSeeds == 3
\* the distinct digit strings a hash can yield
NumIds == 2

\* UUIDService.MAX_TRIES
MAX_TRIES == 8

Seeds == 1..MaxSeeds

NoId == [ns |-> "none", h |-> 0]

\* The digits hashed from a seed string.
Digits(u) == ((u - 1) % NumIds) + 1

\* (mutant) the candidate rehashed with the retry counter
AppleCandidate_rehash(u, t) == [ns |-> "apple", h |-> Digits(u + t)]

\* self._shortus.uuid(name=url).upper()[:self.APPLE_SIZE]
AppleCandidate(u, t) == [ns |-> "apple", h |-> Digits(u)]

\* str(uuid.uuid5(uuid.NAMESPACE_URL,url)).upper()
WindowsCandidate(u, t) == [ns |-> "windows", h |-> Digits(u)]

\* (mutant) one attempt too many
GiveUp_late(t) == t > MAX_TRIES

\* "tries >= self.MAX_TRIES"
GiveUp(t) == t >= MAX_TRIES

\* (mutant) no collision check
InUniques_never(c, u) == FALSE

\* "result in self._uniques"
InUniques(c, u) == c \in u

\* (mutant) no cache lookup
CacheHit_never(cache, u) == FALSE

\* "url in self._apples", "url in self._windows"
CacheHit(cache, u) == u \in DOMAIN cache

\* cache[url] = result
CachePut(cache, u, r) == [x \in DOMAIN cache \cup {u} |-> IF x = u THEN r ELSE cache[x]]

VARIABLES
    uniques,    \* self._uniques
    apples,     \* self._apples
    windows,    \* self._windows
    upc,        \* "idle", "compute", "returned", "raised" (RuntimeError)
    uns,        \* the namespace of the call in progress or last made
    url,        \* its seed
    tries,      \* the argument tries of the compute helper
    cand,       \* the candidate of the latest attempt
    retval,     \* the value the last call returned
    log,        \* what this service returned: records [ns, url, id]
    prev        \* what the services of earlier runs returned

uvars == << uniques, apples, windows, upc, uns, url, tries, cand, retval, log, prev >>

EmptyCache == [x \in {} |-> NoId]

UInit ==
    /\ uniques = {}
    /\ apples = EmptyCache
    /\ windows = EmptyCache
    /\ upc = "idle"
    /\ uns = "none"
    /\ url = 0
    /\ tries = 0
    /\ cand = NoId
    /\ retval = NoId
    /\ log = {}
    /\ prev = {}

\* UUIDService(): a run ends and the next run builds its own service.
NewService ==
    /\ upc # "compute"
    /\ uniques' = {}
    /\ apples' = EmptyCache
    /\ windows' = EmptyCache
    /\ upc' = "idle"
    /\ uns' = "none"
    /\ url' = 0
    /\ tries' = 0
    /\ cand' = NoId
    /\ retval' = NoId
    /\ log' = {}
    /\ prev' = prev \cup log

\* The entry of getAppleUUID / getWindowsUUID: the cache lookup, else the
\* call of the compute helper with tries = 0.
Lookup(ns, cache, u) ==
    /\ upc \in {"idle", "returned"}
    /\ uns' = ns
    /\ url' = u
    /\ tries' = 0
    /\ cand' = NoId
    /\ IF CacheHit(cache, u)
       THEN /\ upc' = "returned"
            /\ retval' = cache[u]
            /\ log' = log \cup {[ns |-> ns, url |-> u, id |-> cache[u]]}
       ELSE /\ upc' = "compute"
            /\ retval' = NoId
            /\ log' = log
    /\ UNCHANGED << uniques, apples, windows, prev >>

getAppleUUID == \E u \in Seeds : Lookup("apple", apples, u)

getWindowsUUID == \E u \in Seeds : Lookup("windows", windows, u)

\* One activation of the recursive compute helper.  A candidate that is not
\* in use is returned to the getter, which adds it to the set and the cache.
Compute(ns, c) ==
    /\ upc = "compute"
    /\ uns = ns
    /\ IF GiveUp(tries)
       THEN /\ upc' = "raised"
            /\ UNCHANGED << uniques, apples, windows, tries, cand, retval, log >>
       ELSE /\ cand' = c
            /\ IF InUniques(c, uniques)
               THEN /\ tries' = tries + 1
                    /\ UNCHANGED << uniques, apples, windows, upc, retval, log >>
               ELSE /\ uniques' = uniques \cup {c}
                    /\ apples' = IF ns = "apple" THEN CachePut(apples, url, c) ELSE apples
                    /\ windows' = IF ns = "windows" THEN CachePut(windows, url, c) ELSE windows
                    /\ upc' = "returned"
                    /\ retval' = c
                    /\ log' = log \cup {[ns |-> ns, url |-> url, id |-> c]}
                    /\ UNCHANGED tries
    /\ UNCHANGED << uns, url, prev >>

_compute_Apple_UUID_ == Compute("apple", AppleCandidate(url, tries))

_compute_Windows_UUID_ == Compute("windows", WindowsCandidate(url, tries))

(***************************************************************************)
(* Claims about UUIDService (checked under SpecUUID).                      *)
(***************************************************************************)
CacheOf(ns) == IF ns = "apple" THEN apples ELSE windows

SamePair(r1, r2) == r1.ns = r2.ns /\ r1.url = r2.url

\* C4: within one service, two calls with the same namespace and seed
\* return the same identifier whatever was called between them, and a call
\* for a cached seed is answered from the cache: it starts no computation,
\* returns the cached identifier and leaves the issued set and the caches
\* as they were.
C4_RepeatFromCache ==
    /\ [](\A r1, r2 \in log : SamePair(r1, r2) => r1.id = r2.id)
    /\ [][(/\ upc \in {"idle", "returned"}
           /\ upc' \in {"returned", "compute"}
           /\ url' \in DOMAIN CacheOf(uns'))
          => (/\ upc' = "returned"
              /\ retval' = CacheOf(uns')[url']
              /\ UNCHANGED << uniques, apples, windows >>)]_uvars

\* C4 witness: a call was answered from the cache of a service that has
\* issued other identifiers too.
C4_Witness ==
    /\ upc = "returned"
    /\ cand = NoId
    /\ retval = CacheOf(uns)[url]
    /\ Cardinality(uniques) >= 2

\* C5: the identifiers one service has returned for distinct (namespace,
\* seed) pairs are pairwise distinct, and the set every candidate is checked
\* against holds every identifier returned so far, in either namespace.
C5_Unique ==
    /\ \A r1, r2 \in log : ~ SamePair(r1, r2) => r1.id # r2.id
    /\ uniques = {r.id : r \in log}

\* C5 witness: the service has returned identifiers for two seeds of one
\* namespace and for a seed of the other.
C5_Witness ==
    \E r1, r2, r3 \in log :
        r1.ns = r2.ns /\ r1.url # r2.url /\ r3.ns # r1.ns

C7_Exhausted ==
    /\ [](upc = "raised" => (tries = MAX_TRIES /\ retval = NoId))
    /\ [](upc = "compute" => tries <= MAX_TRIES)
    /\ [][(upc = "compute" /\ upc' # "returned")
          => UNCHANGED << uniques, apples, windows >>]_uvars

\* C7 witness: a call for a new seed raised after MAX_TRIES collisions.
C7_Witness ==
    /\ upc = "raised"
    /\ tries = MAX_TRIES
    /\ cand \in uniques
    /\ url \notin DOMAIN CacheOf(uns)

\* C8: whatever the services of successive runs served before, a seed
\* gets the same identifier from each of them that returns one for it.
C8_HistoryFree ==
    \A r1, r2 \in prev \cup log : SamePair(r1, r2) => r1.id = r2.id

\* C8 witness: this service and an earlier one returned an identifier for
\* the same seed after serving different calls.
C8_Witness ==
    \E r \in log, q \in prev :
        /\ SamePair(r, q)
        /\ \E x \in prev : x \notin log
        /\ \E y \in log : y \notin prev

(***************************************************************************)
(* util.py: UUIDService.applyPrefix.  A string is the sequence of its      *)
(* characters.                                                             *)
(***************************************************************************)
\* the longest prefix and the longest identifier tried
MaxLen == 3

Chars == {"-", "A", "B"}

Strings == UNION {[1..n -> Chars] : n \in 0..MaxLen}

Max(a, b) == IF a >= b THEN a ELSE b

\* (mutant) a hyphen of the identifier is overwritten like any character
IsSeparator_never(c) == FALSE

\* "uuid[ii] == '-'"
IsSeparator(c) == c = "-"

\* copy[:len(uuid)]
Truncate(copy, n) == SubSeq(copy, 1, IF Len(copy) < n THEN Len(copy) ELSE n)

\* The loop "for ii in range(max(len(prefix),len(uuid)))", from position ii
\* (counted from 1) on.
RECURSIVE applyPrefixFrom(_, _, _, _)
applyPrefixFrom(prefix, uuid, ii, copy) ==
    IF ii > Max(Len(prefix), Len(uuid)) THEN copy
    ELSE applyPrefixFrom(prefix, uuid, ii + 1,
            IF ii <= Len(uuid) /\ IsSeparator(uuid[ii]) THEN Append(copy, uuid[ii])
            ELSE IF ii <= Len(prefix) THEN Append(copy, prefix[ii])
            ELSE Append(copy, uuid[ii]))

applyPrefix(prefix, uuid) ==
    Truncate(applyPrefixFrom(prefix, uuid, 1, << >>), Len(uuid))

VARIABLES
    fprefix,    \* the argument prefix
    fuuid,      \* the argument uuid
    fcopy,      \* the value returned
    fpc         \* "call", "done"

fvars == << fprefix, fuuid, fcopy, fpc >>

FInit ==
    /\ fprefix \in Strings
    /\ fuuid \in Strings
    /\ fcopy = << >>
    /\ fpc = "call"

\* no call of applyPrefix under way
FRest ==
    /\ fprefix = << >>
    /\ fuuid = << >>
    /\ fcopy = << >>
    /\ fpc = "call"

ApplyPrefix ==
    /\ fpc = "call"
    /\ fcopy' = applyPrefix(fprefix, fuuid)
    /\ fpc' = "done"
    /\ UNCHANGED << fprefix, fuuid >>

\* C9: applyPrefix(p, id) has the length of id and holds at every position
\* the hyphen of id if id has one there, else the character of p if p
\* reaches that far, else the character of id.
C9_PrefixOverlay ==
    fpc = "done" =>
        /\ Len(fcopy) = Len(fuuid)
        /\ \A i \in 1..Len(fuuid) :
              fcopy[i] = IF fuuid[i] = "-" THEN "-"
                         ELSE IF i <= Len(fprefix) THEN fprefix[i]
                         ELSE fuuid[i]

\* C9 witness: a prefix longer than the identifier, one of its characters
\* aligned with a hyphen and dropped, the next one placed right after the
\* hyphen.
C9_Witness ==
    /\ fpc = "done"
    /\ Len(fprefix) > Len(fuuid)
    /\ \E i \in 1..(Len(fuuid) - 1) :
          /\ fuuid[i] = "-"
          /\ fprefix[i] # "-"
          /\ fuuid[i + 1] # "-"
          /\ fprefix[i + 1] # fprefix[i]
          /\ fprefix[i + 1] # fuuid[i + 1]
          /\ fcopy[i] = "-"
          /\ fcopy[i + 1] = fprefix[i + 1]

(***************************************************************************)
(* util.py: insert_filetree.  A filetree (a dict, keys in insertion order) *)
(* is the sequence of its entries; an entry is a directory (a dict) with   *)
(* its own entries, or a leaf (a str) with its target.                     *)
(***************************************************************************)
\* the longest path inserted
MaxDepth == 2
\* the files inserted in one run
MaxFiles == 3

Names == {"a", "b"}

Tags == {"all", "android"}

Paths == UNION {[1..n -> Names] : n \in 1..MaxDepth}

\* curr[entry] = {}
NewDir(name) == [name |-> name, dir |-> TRUE, tag |-> "", kids |-> << >>]

\* prev[path[-1]] = target
NewLeaf(name, target) == [name |-> name, dir |-> FALSE, tag |-> target, kids |-> << >>]

\* "entry in curr", for a dict curr
HasKey(curr, entry) == \E k \in 1..Len(curr) : curr[k].name = entry

KeyIndex(curr, entry) == CHOOSE k \in 1..Len(curr) : curr[k].name = entry

\* (mutant) the key is deleted and added again: it goes last
SetEntry_last(curr, entry, node) ==
    LET Other(e) == e.name # entry
    IN  Append(SelectSeq(curr, Other), node)

\* curr[entry] = node: a new key goes last, a key of the dict keeps its place
SetEntry(curr, entry, node) ==
    IF HasKey(curr, entry) THEN [curr EXCEPT ![KeyIndex(curr, entry)] = node]
    ELSE Append(curr, node)

\* "if not entry in curr"
Missing(curr, entry) == ~ HasKey(curr, entry)

\* (mutant) a file that has a target keeps it
AssignTarget_keep(parent, entry, target) ==
    IF ~ parent[KeyIndex(parent, entry)].dir THEN parent
    ELSE SetEntry(parent, entry, NewLeaf(entry, target))

\* "prev[path[-1]] = target", on the dict parent that prev names
AssignTarget(parent, entry, target) == SetEntry(parent, entry, NewLeaf(entry, target))

\* The loop "for entry in path" from the dict curr on, and the assignment
\* of the target that follows it.  A leaf met before the last component
\* raises TypeError (a str takes no item assignment and no str index):
\* ok = FALSE.
RECURSIVE insert_walk(_, _, _)
insert_walk(curr, path, target) ==
    LET entry   == Head(path)
        created == IF Missing(curr, entry) THEN SetEntry(curr, entry, NewDir(entry))
                   ELSE curr
        k       == KeyIndex(created, entry)
    IN  IF Len(path) = 1
        THEN [ok |-> TRUE, tree |-> AssignTarget(created, entry, target)]
        ELSE IF ~ created[k].dir
        THEN [ok |-> FALSE, tree |-> created]
        ELSE LET sub == insert_walk(created[k].kids, Tail(path), target)
             IN  [ok |-> sub.ok, tree |-> [created EXCEPT ![k].kids = sub.tree]]

\* insert_filetree(filetree,[file],target), path = file.split('/')
insert_filetree(filetree, path, target) == insert_walk(filetree, path, target)

\* The path leads to a leaf of the tree that carries the target.
RECURSIVE IsLeaf(_, _, _)
IsLeaf(curr, path, target) ==
    /\ HasKey(curr, Head(path))
    /\ LET node == curr[KeyIndex(curr, Head(path))]
       IN  IF Len(path) = 1 THEN ~ node.dir /\ node.tag = target
           ELSE node.dir /\ IsLeaf(node.kids, Tail(path), target)

NoFile == [path |-> << >>, tag |-> ""]

VARIABLES
    tree,       \* the filetree
    tpc,        \* "ok", "error" (TypeError raised)
    tlast,      \* the file and target of the last insertion
    treins,     \* the tree held that file with that target before it
    tfiles,     \* the files inserted so far
    tlog,       \* for every path, the target of its latest insertion ("" if none)
    tover       \* the tree held the last file with another target before it

tvars == << tree, tpc, tlast, treins, tfiles, tlog, tover >>

TInit ==
    /\ tree = << >>
    /\ tpc = "ok"
    /\ tlast = NoFile
    /\ treins = FALSE
    /\ tfiles = 0
    /\ tlog = [p \in Paths |-> ""]
    /\ tover = FALSE

InsertFile ==
    /\ tpc = "ok"
    /\ tfiles < MaxFiles
    /\ \E path \in Paths, target \in Tags :
          LET r == insert_filetree(tree, path, target)
          IN  /\ tree' = r.tree
              /\ tpc' = IF r.ok THEN "ok" ELSE "error"
              /\ tlast' = [path |-> path, tag |-> target]
              /\ treins' = IsLeaf(tree, path, target)
              /\ tlog' = [tlog EXCEPT ![path] = target]
              /\ tover' = \E other \in Tags \ {target} : IsLeaf(tree, path, other)
    /\ tfiles' = tfiles + 1

\* C10: inserting a file with the target it was inserted with, and still
\* has, leaves the tree as it was, the order of the entries of every
\* directory included; and a file just inserted is in the tree with its
\* target, so that inserting it twice is inserting it once.
C10_InsertIdempotent ==
    /\ \A path \in Paths, target \in Tags :
          IsLeaf(tree, path, target) =>
              insert_filetree(tree, path, target) = [ok |-> TRUE, tree |-> tree]
    /\ (tpc = "ok" /\ tlast # NoFile) => IsLeaf(tree, tlast.path, tlast.tag)

\* C10 witness: the first file of a directory of two was inserted again
\* with its target.
C10_Witness ==
    /\ tpc = "ok"
    /\ treins
    /\ Len(tlast.path) >= 2
    /\ Len(tree) >= 1
    /\ tree[1].dir /\ Len(tree[1].kids) >= 2
    /\ tree[1].name = tlast.path[1]
    /\ tree[1].kids[1].name = tlast.path[2]

\* C11: a path that is a leaf of the tree carries the target of the latest
\* insertion of that path, whatever was inserted before and with whatever
\* target: a later target replaces the earlier one.
C11_LastWriteWins ==
    \A path \in Paths, target \in Tags :
        IsLeaf(tree, path, target) => tlog[path] = target

\* C11 witness: a file of a directory, held with the target all, was
\* inserted with the target android and now carries android.
C11_Witness ==
    /\ tpc = "ok"
    /\ tover
    /\ Len(tlast.path) >= 2
    /\ tlast.tag = "android"
    /\ IsLeaf(tree, tlast.path, "android")
    /\ ~ IsLeaf(tree, tlast.path, "all")

\* C21: every insertion completes without error, whatever the tree holds
\* (a leaf at a proper prefix of the path included), and afterwards every
\* proper prefix of the path is a directory and the path is a leaf that
\* carries the target.
C21_InsertCompletes ==
    tlast # NoFile => (tpc = "ok" /\ IsLeaf(tree, tlast.path, tlast.tag))

(***************************************************************************)
(* apple.py: place_entries.  An XCode object (a str) is the sequence of    *)
(* its pieces: a line break, the text prefix+' = ', the character '(',     *)
(* the four tabs of the indentation, or some other text without a line     *)
(* break and without the anchor.                                           *)
(***************************************************************************)
\* the lines of the object handed to place_entries
MaxLines == 3
\* the entries handed to place_entries
MaxEntries == 2

NL == "\n"
TABS == "\t\t\t\t"
KEY == "files = "
PAREN == "("

\* the lines an object is made of, without their line break
ObjLines ==
    { << >>, << "x" >>, << "y" >>, << KEY, PAREN >>,
      << "x", KEY, PAREN >>, << KEY, PAREN, "x" >> }

\* lines joined by line breaks, as '\n'.join(lines)
RECURSIVE JoinLines(_)
JoinLines(lines) ==
    IF lines = << >> THEN << >>
    ELSE IF Len(lines) = 1 THEN Head(lines)
    ELSE Head(lines) \o << NL >> \o JoinLines(Tail(lines))

\* the objects: up to MaxLines lines, the last one with or without its
\* line break
Objects ==
    UNION { { JoinLines(ls) : ls \in [1..n -> ObjLines] } \cup
            { JoinLines(ls) \o << NL >> : ls \in [1..n -> ObjLines] }
            : n \in 1..MaxLines }

EntryTexts == { << "p" >>, << "q" >> }

EntryLists == UNION { [1..k -> EntryTexts] : k \in 0..MaxEntries }

\* block.find(prefix+' = (', start): the first place at or after start
\* where the anchor begins, 0 for Python's -1
FindAnchor(block, start) ==
    LET hits == { i \in start..(Len(block) - 1) :
                      block[i] = KEY /\ block[i + 1] = PAREN }
    IN  IF hits = { } THEN 0
        ELSE CHOOSE i \in hits : \A j \in hits : i <= j

\* (mutant) the line break is looked for from the start of the object
FindBreak_start(block, start) ==
    LET hits == { i \in 1..Len(block) : block[i] = NL }
    IN  IF hits = { } THEN 0
        ELSE CHOOSE i \in hits : \A j \in hits : i <= j

\* block.find('\n', start), 0 for Python's -1
FindBreak(block, start) ==
    LET hits == { i \in start..Len(block) : block[i] = NL }
    IN  IF hits = { } THEN 0
        ELSE CHOOSE i \in hits : \A j \in hits : i <= j

\* indent.join(items), indent = '\n\t\t\t\t'
RECURSIVE IndentJoin(_)
IndentJoin(items) ==
    IF items = << >> THEN << >>
    ELSE IF Len(items) = 1 THEN Head(items)
    ELSE Head(items) \o << NL, TABS >> \o IndentJoin(Tail(items))

\* place_entries(obj,entries,prefix).  None is returned when the anchor is
\* not found.  When no line break follows the anchor, find gives -1 and the
\* slices obj[:-1], obj[-1:] split the object before its last character.
place_entries(block, items) ==
    LET anchor   == FindAnchor(block, 1)
        brk      == FindBreak(block, anchor)
        cut      == IF brk = 0 THEN Len(block) ELSE brk
        children == << NL, TABS >> \o IndentJoin(items)
    IN  IF anchor = 0 THEN None
        ELSE SubSeq(block, 1, cut - 1) \o children \o SubSeq(block, cut, Len(block))

VARIABLES
    obj,        \* the object handed to place_entries
    entries,    \* the entries handed to it
    placed,     \* what it returned
    epc         \* "call", "done"

evars == << obj, entries, placed, epc >>

EInit ==
    /\ obj \in Objects
    /\ entries \in EntryLists
    /\ placed = None
    /\ epc = "call"

\* no call of place_entries under way
ERest ==
    /\ obj = << >>
    /\ entries = << >>
    /\ placed = None
    /\ epc = "call"

PlaceEntries ==
    /\ epc = "call"
    /\ placed' = place_entries(obj, entries)
    /\ epc' = "done"
    /\ UNCHANGED << obj, entries >>

\* text.split('\n')
RECURSIVE SplitLines(_)
SplitLines(text) ==
    LET brk == FindBreak(text, 1)
    IN  IF brk = 0 THEN << text >>
        ELSE << SubSeq(text, 1, brk - 1) >> \o SplitLines(SubSeq(text, brk + 1, Len(text)))

HasAnchor(text) == FindAnchor(text, 1) # 0

\* the first line that holds the anchor
AnchorLine(lines) ==
    CHOOSE a \in 1..Len(lines) :
        HasAnchor(lines[a]) /\ \A b \in 1..(a - 1) : ~ HasAnchor(lines[b])

\* The lines of the list after the anchor line are followed by a line
\* break: the anchor line is not the last line of the object.
ListFollows(text) ==
    /\ HasAnchor(text)
    /\ AnchorLine(SplitLines(text)) < Len(SplitLines(text))

Indented(items) == [i \in 1..Len(items) |-> << TABS >> \o items[i]]

\* C12: for an object whose anchor line is followed by the lines of its
\* list, the lines of the object returned are the lines up to the anchor
\* line unchanged, then one line per new entry, indented, in the order
\* given, then every line that followed the anchor line, unchanged and in
\* order; with no new entry the only line added is one of indentation.
C12_PlaceEntries ==
    (epc = "done" /\ ListFollows(obj)) =>
        LET old == SplitLines(obj)
            a   == AnchorLine(old)
            new == IF entries = << >> THEN << << TABS >> >> ELSE Indented(entries)
        IN  /\ placed # None
            /\ SplitLines(placed) =
                   SubSeq(old, 1, a) \o new \o SubSeq(old, a + 1, Len(old))

\* C12 witness: two different entries were placed into a list of two
\* different lines.
C12_Witness ==
    /\ epc = "done"
    /\ obj = << KEY, PAREN, NL, "x", NL, "y", NL >>
    /\ entries = << << "p" >>, << "q" >> >>
    /\ placed = << KEY, PAREN, NL, TABS, "p", NL, TABS, "q", NL, "x", NL, "y", NL >>

\* C29: when the object holds no anchor prefix+' = (', the splice leaves
\* it as it is: the block that populate_assets and populate_sources store
\* at its position ("groups[pos] = place_entries(groups[pos],...)") is the
\* object handed over (a non-empty text), not None.
C29_NoAnchorUnchanged ==
    (epc = "done" /\ obj # << >> /\ ~ HasAnchor(obj)) =>
        (placed # None /\ placed = obj)

(***************************************************************************)
(* apple.py: build_groups, windows.py: build_filters.  The two functions   *)
(* differ in the UUID they ask for and in the separator of the paths they  *)
(* hash.  The registry returned (a dict, keys in insertion order) is the   *)
(* sequence of its entries [key, name, kids]; kids is the list of the      *)
(* children (id, item, tag).  A path is the sequence of its components.    *)
(***************************************************************************)
\* the files of the source tree handed to build_groups
MaxBuildFiles == 2

HexChars == {"0", "1"}

\* What the model keeps of a hash: its first and its last character.
HashValues == HexChars \X HexChars

\* shortuuid.uuid(name=url).upper()[:24]
AppleHash(v) == << v[1], "0", v[2] >>

\* str(uuid.uuid5(uuid.NAMESPACE_URL,url)).upper()
WindowsHash(v) == << v[1], "0", "-", v[2] >>

\* 'GROUP://'+path, 'GROUP:\\'+path
GroupSeed(path) == [kind |-> "GROUP", path |-> path]

\* 'FILE://'+path+'/'+item, 'FILE:\\'+path+'\'+item
FileSeed(path) == [kind |-> "FILE", path |-> path]

GROUP_PREFIX == << "C", "D" >>

FILE_PREFIX == << "B", "A" >>

\* UUIDService()
EmptyService == [uniques |-> {}, apples |-> EmptyCache, windows |-> EmptyCache]

\* getAppleUUID(url) / getWindowsUUID(url) from the call to its return, on
\* the service svc; h[url] is the hash of url.  A candidate in use is
\* computed again with the same result until the helper gives up:
\* ok = FALSE is the RuntimeError.
ServiceCall(ns, svc, u, h) ==
    LET cache == IF ns = "apple" THEN svc.apples ELSE svc.windows
        c     == IF ns = "apple" THEN AppleHash(h[u]) ELSE WindowsHash(h[u])
    IN  IF CacheHit(cache, u) THEN [ok |-> TRUE, id |-> cache[u], svc |-> svc]
        ELSE IF InUniques(c, svc.uniques) THEN [ok |-> FALSE, id |-> NoId, svc |-> svc]
        ELSE [ok |-> TRUE, id |-> c,
              svc |-> [uniques |-> svc.uniques \cup {c},
                       apples  |-> IF ns = "apple" THEN CachePut(svc.apples, u, c)
                                   ELSE svc.apples,
                       windows |-> IF ns = "apple" THEN svc.windows
                                   ELSE CachePut(svc.windows, u, c)]]

\* "key in result", for the dict result
RegHas(reg, key) == \E k \in 1..Len(reg) : reg[k].key = key

RegIndex(reg, key) == CHOOSE k \in 1..Len(reg) : reg[k].key = key

\* result[key] = value: a new key goes last, a key of the dict keeps its place
RegSet(reg, entry) ==
    IF RegHas(reg, entry.key) THEN [reg EXCEPT ![RegIndex(reg, entry.key)] = entry]
    ELSE Append(reg, entry)

\* "result[key] = (item,subresult[1][key][1])"
Rename(entry, item) == [entry EXCEPT !.name = item]

\* The loop "for key in subresult[1]", from the j-th key on.  The entry of
\* the root of the subresult takes the name of the item.
RECURSIVE merge_subresult(_, _, _, _, _)
merge_subresult(reg, subuuid, subreg, item, j) ==
    IF j > Len(subreg) THEN reg
    ELSE LET entry == IF subreg[j].key = subuuid
                      THEN [Rename(subreg[j], item) EXCEPT !.own = FALSE]
                      ELSE subreg[j]
         IN  merge_subresult(RegSet(reg, entry), subuuid, subreg, item, j + 1)

\* build_groups / build_filters, and the loop "for item in filetree" from
\* the i-th item on.  acc holds the service, the list contents and the dict
\* result; the entry of result that holds the list contents itself (own)
\* shows the items appended to it later, unless the entry was assigned
\* again.
RECURSIVE build_items(_, _, _, _, _, _)
RECURSIVE build_registry(_, _, _, _, _)
build_items(ns, path, filetree, h, i, acc) ==
    IF i > Len(filetree) \/ ~ acc.ok THEN acc
    ELSE LET item == filetree[i]
             sub  == build_registry(ns, Append(path, item.name), item.kids, acc.svc, h)
             file == ServiceCall(ns, acc.svc, FileSeed(Append(path, item.name)), h)
             next ==
                 IF item.dir
                 THEN IF ~ sub.ok THEN [acc EXCEPT !.ok = FALSE]
                      ELSE [ok       |-> TRUE,
                            svc      |-> sub.svc,
                            contents |-> Append(acc.contents,
                                            [id |-> sub.uuid, item |-> item.name, tag |-> "group"]),
                            result   |-> merge_subresult(acc.result, sub.uuid, sub.result,
                                                         item.name, 1)]
                 ELSE IF ~ file.ok THEN [acc EXCEPT !.ok = FALSE]
                      ELSE [ok       |-> TRUE,
                            svc      |-> file.svc,
                            contents |-> Append(acc.contents,
                                            [id   |-> applyPrefix(FILE_PREFIX, file.id),
                                             item |-> item.name, tag |-> item.tag]),
                            result   |-> acc.result]
         IN  build_items(ns, path, filetree, h, i + 1, next)

build_registry(ns, path, filetree, svc, h) ==
    LET group == ServiceCall(ns, svc, GroupSeed(path), h)
        uuid  == applyPrefix(GROUP_PREFIX, group.id)
        start == [ok |-> TRUE, svc |-> group.svc, contents |-> << >>,
                  result |-> << [key |-> uuid, name |-> "", kids |-> << >>, own |-> TRUE] >>]
        done  == build_items(ns, path, filetree, h, 1, start)
        Final(e) == IF e.own THEN [e EXCEPT !.kids = done.contents, !.own = FALSE] ELSE e
    IN  IF ~ group.ok \/ ~ done.ok
        THEN [ok |-> FALSE, uuid |-> NoId, result |-> << >>, svc |-> svc]
        ELSE [ok |-> TRUE, uuid |-> uuid, svc |-> done.svc,
              result |-> [k \in 1..Len(done.result) |-> Final(done.result[k])]]

build_groups(path, filetree, svc, h) == build_registry("apple", path, filetree, svc, h)

build_filters(path, filetree, svc, h) == build_registry("windows", path, filetree, svc, h)

\* the seeds build_groups hashes for a filetree rooted at path
RECURSIVE TreeSeeds(_, _)
TreeSeeds(path, filetree) ==
    {GroupSeed(path)} \cup
    UNION { IF filetree[i].dir
            THEN TreeSeeds(Append(path, filetree[i].name), filetree[i].kids)
            ELSE {FileSeed(Append(path, filetree[i].name))} : i \in 1..Len(filetree) }

\* the filetrees expand_sources builds from up to n files
RECURSIVE TreesOf(_)
TreesOf(n) ==
    IF n = 0 THEN { << >> }
    ELSE LET less == TreesOf(n - 1)
         IN  less \cup
             { insert_filetree(t, p, target).tree :
                  << t, p, target >> \in
                     { x \in less \X Paths \X Tags : insert_filetree(x[1], x[2], x[3]).ok } }

NoRegistry == [ok |-> FALSE, uuid |-> NoId, result |-> << >>, svc |-> EmptyService]

VARIABLES
    gtree,      \* the argument filetree
    gns,        \* "apple" (build_groups) or "windows" (build_filters)
    gout,       \* what the call returned: (uuid, result), ok = FALSE if it raised
    gpc         \* "call", "done"

gvars == << gtree, gns, gout, gpc >>

GInit ==
    /\ gtree \in TreesOf(MaxBuildFiles)
    /\ gns = "none"
    /\ gout = NoRegistry
    /\ gpc = "call"

\* no call of build_groups under way
GRest ==
    /\ gtree = << >>
    /\ gns = "none"
    /\ gout = NoRegistry
    /\ gpc = "call"

BuildGroups ==
    /\ gpc = "call"
    /\ \E h \in [TreeSeeds(<< >>, gtree) -> HashValues] :
          gout' = build_groups(<< >>, gtree, EmptyService, h)
    /\ gns' = "apple"
    /\ gpc' = "done"
    /\ UNCHANGED gtree

BuildFilters ==
    /\ gpc = "call"
    /\ \E h \in [TreeSeeds(<< >>, gtree) -> HashValues] :
          gout' = build_filters(<< >>, gtree, EmptyService, h)
    /\ gns' = "windows"
    /\ gpc' = "done"
    /\ UNCHANGED gtree

\* the directories below the root of a filetree, and its files
RECURSIVE DirCount(_)
DirCount(filetree) ==
    IF filetree = << >> THEN 0
    ELSE (IF Head(filetree).dir THEN 1 + DirCount(Head(filetree).kids) ELSE 0)
         + DirCount(Tail(filetree))

RECURSIVE FileCount(_)
FileCount(filetree) ==
    IF filetree = << >> THEN 0
    ELSE (IF Head(filetree).dir THEN FileCount(Head(filetree).kids) ELSE 1)
         + FileCount(Tail(filetree))

\* The registry holds under id an entry that lists the items of filetree,
\* one child each and in order, and so on below every subdirectory.
RECURSIVE RegistryMatches(_, _, _)
RegistryMatches(id, filetree, reg) ==
    /\ RegHas(reg, id)
    /\ LET e == reg[RegIndex(reg, id)]
       IN  /\ Len(e.kids) = Len(filetree)
           /\ \A i \in 1..Len(filetree) :
                 /\ e.kids[i].item = filetree[i].name
                 /\ IF filetree[i].dir
                    THEN /\ e.kids[i].tag = "group"
                         /\ RegistryMatches(e.kids[i].id, filetree[i].kids, reg)
                    ELSE e.kids[i].tag = filetree[i].tag

GroupIds(reg) == { reg[k].key : k \in 1..Len(reg) }

FileIds(reg) ==
    UNION { { reg[k].kids[i].id : i \in { j \in 1..Len(reg[k].kids) :
                                            reg[k].kids[j].tag # "group" } }
            : k \in 1..Len(reg) }

\* C13: a top-level call of build_groups or build_filters returns, for any
\* filetree, the root identifier and a registry with exactly one entry per
\* directory (the root included), every entry listing one child per item
\* of its directory, and the identifiers of all the groups and all the
\* files, prefixes applied, are pairwise distinct.
C13_Registry ==
    gpc = "done" =>
        /\ gout.ok
        /\ Len(gout.result) = DirCount(gtree) + 1
        /\ RegistryMatches(gout.uuid, gtree, gout.result)
        /\ Cardinality(GroupIds(gout.result)) = DirCount(gtree) + 1
        /\ Cardinality(FileIds(gout.result)) = FileCount(gtree)
        /\ GroupIds(gout.result) \cap FileIds(gout.result) = {}

(***************************************************************************)
(* util.py: file_replace and file_replace_after.  A text is the sequence   *)
(* of its characters; positions are counted from 0 as in Python, -1 is     *)
(* "not found".  A mapping (a dict) is the sequence of its [key, value]    *)
(* pairs, keys distinct.                                                   *)
(***************************************************************************)
\* the longest file
MaxText == 3
\* the longest key and the longest value
MaxWord == 2
\* the iterations of the scan of file_replace_after that are followed
MaxScans == 6

Letters == {"a", "b"}

TextChars == Letters \cup {NL}

\* the texts over an alphabet, up to n characters
TextsOver(alphabet, n) == UNION { [1..k -> alphabet] : k \in 0..n }

\* text[start:], start >= 0
SliceFrom(text, start) == SubSeq(text, start + 1, Len(text))

\* text[:stop], a negative stop counted from the end
SliceTo(text, stop) ==
    SubSeq(text, 1, IF stop < 0 THEN Max(Len(text) + stop, 0) ELSE stop)

\* text.find(sub,start), a negative start counted from the end
Find(text, sub, start) ==
    LET from == IF start < 0 THEN Max(Len(text) + start, 0) ELSE start
        hits == { i \in from..(Len(text) - Len(sub)) :
                      SubSeq(text, i + 1, i + Len(sub)) = sub }
    IN  IF hits = { } THEN -1
        ELSE CHOOSE i \in hits : \A j \in hits : i <= j

\* text.replace(key,value) for the empty key: the value goes before every
\* character and at the end
RECURSIVE Intersperse(_, _)
Intersperse(text, value) ==
    IF text = << >> THEN value
    ELSE value \o << Head(text) >> \o Intersperse(Tail(text), value)

\* text.replace(key,value): the occurrences of key are taken from the left
\* and do not overlap
RECURSIVE Replace(_, _, _)
Replace(text, key, value) ==
    IF key = << >> THEN Intersperse(text, value)
    ELSE IF Len(text) < Len(key) THEN text
    ELSE IF SubSeq(text, 1, Len(key)) = key
    THEN value \o Replace(SliceFrom(text, Len(key)), key, value)
    ELSE << Head(text) >> \o Replace(Tail(text), key, value)

\* "for key in data: contents = contents.replace(key,data[key])"
RECURSIVE ReplaceAll(_, _)
ReplaceAll(text, mapping) ==
    IF mapping = << >> THEN text
    ELSE ReplaceAll(Replace(text, Head(mapping).key, Head(mapping).value), Tail(mapping))

\* a file of the disk: absent, or present with its text
AbsentFile == [exists |-> FALSE, text |-> << >>]

FileOf(text) == [exists |-> TRUE, text |-> text]

\* "if contents:" fails
IsEmptyText(text) == text = << >>

\* The end of file_replace and file_replace_after: the text is written
\* back unless it is empty, and then FileNotFoundError is raised.
WriteBack(file, text) ==
    IF IsEmptyText(text) THEN [raised |-> TRUE, file |-> file]
    ELSE [raised |-> FALSE, file |-> FileOf(text)]

\* file_replace(path,data) on the file at path: what is raised and the
\* file left behind.  open() raises FileNotFoundError for an absent file.
file_replace(file, mapping) ==
    IF ~ file.exists THEN [raised |-> TRUE, file |-> file]
    ELSE WriteBack(file, ReplaceAll(file.text, mapping))

\* (mutant) every scan starts at the beginning of the text again
RECURSIVE replace_scan_restart(_, _, _, _, _)
replace_scan_restart(text, key, value, pos1, scans) ==
    LET found == Find(text, key, 0)
        pos0  == IF found # -1 THEN found + Len(key) ELSE -1
        brk   == Find(text, << NL >>, pos0)
        stop  == IF brk = -1 THEN Len(text) ELSE brk
        next  == SliceTo(text, pos0) \o value \o SliceFrom(text, stop)
    IN  IF scans = 0 THEN [ended |-> FALSE, text |-> text]
        ELSE IF pos0 = -1 THEN [ended |-> TRUE, text |-> next]
        ELSE replace_scan_restart(next, key, value, stop, scans - 1)

\* The loop "while pos0 != -1" of file_replace_after for one key, from the
\* iteration that starts with the scan position pos1 on.  The last
\* iteration (pos0 == -1) assigns contents like the others.  scans counts
\* the iterations left to follow; at 0 the loop is given up as unfinished.
RECURSIVE replace_scan(_, _, _, _, _)
replace_scan(text, key, value, pos1, scans) ==
    LET found == Find(text, key, pos1)
        pos0  == IF found # -1 THEN found + Len(key) ELSE -1
        brk   == Find(text, << NL >>, pos0)
        stop  == IF brk = -1 THEN Len(text) ELSE brk
        next  == SliceTo(text, pos0) \o value \o SliceFrom(text, stop)
    IN  IF scans = 0 THEN [ended |-> FALSE, text |-> text]
        ELSE IF pos0 = -1 THEN [ended |-> TRUE, text |-> next]
        ELSE replace_scan(next, key, value, stop, scans - 1)

\* "for key in data" of file_replace_after
RECURSIVE ReplaceAfterAll(_, _)
ReplaceAfterAll(text, mapping) ==
    IF mapping = << >> THEN [ended |-> TRUE, text |-> text]
    ELSE LET one == replace_scan(text, Head(mapping).key, Head(mapping).value, 0, MaxScans)
         IN  IF ~ one.ended THEN one
             ELSE ReplaceAfterAll(one.text, Tail(mapping))

\* file_replace_after(path,data) on the file at path
file_replace_after(file, mapping) ==
    IF ~ file.exists THEN [ended |-> TRUE, raised |-> TRUE, file |-> file]
    ELSE LET all == ReplaceAfterAll(file.text, mapping)
             w   == WriteBack(file, all.text)
         IN  IF ~ all.ended THEN [ended |-> FALSE, raised |-> FALSE, file |-> file]
             ELSE [ended |-> TRUE, raised |-> w.raised, file |-> w.file]

Pairs(keys, values) == { [key |-> k, value |-> v] : k \in keys, v \in values }

\* the mappings of file_replace: up to two keys
ReplaceMappings ==
    LET P == Pairs(TextsOver(Letters, MaxWord) \ { << >> }, TextsOver(Letters, MaxWord))
    IN  { << >> } \cup { << e >> : e \in P } \cup
        { << e[1], e[2] >> : e \in { x \in P \X P : x[1].key # x[2].key } }

\* the mappings of file_replace_after: up to one key
AfterMappings ==
    LET P == Pairs(TextsOver(TextChars, MaxWord) \ { << >> }, TextsOver(Letters, MaxWord))
    IN  { << >> } \cup { << e >> : e \in P }

VARIABLES
    rfile,      \* the file at path before the call
    rdata,      \* the argument data
    rleft,      \* the file at path after the call
    rpc         \* "call", "done", "raised" (FileNotFoundError), "scanning"

rvars == << rfile, rdata, rleft, rpc >>

\* a call of file_replace is about to be made
RInit ==
    /\ rfile \in { AbsentFile } \cup { FileOf(t) : t \in TextsOver(Letters, MaxText) }
    /\ rdata \in ReplaceMappings
    /\ rleft = rfile
    /\ rpc = "call"

\* a call of file_replace_after is about to be made
AInit ==
    /\ rfile \in { AbsentFile } \cup { FileOf(t) : t \in TextsOver(TextChars, MaxText) }
    /\ rdata \in AfterMappings
    /\ rleft = rfile
    /\ rpc = "call"

\* no call under way
RRest ==
    /\ rfile = AbsentFile
    /\ rdata = << >>
    /\ rleft = AbsentFile
    /\ rpc = "call"

FileReplace ==
    /\ rpc = "call"
    /\ LET r == file_replace(rfile, rdata)
       IN  /\ rleft' = r.file
           /\ rpc' = IF r.raised THEN "raised" ELSE "done"
    /\ UNCHANGED << rfile, rdata >>

FileReplaceAfter ==
    /\ rpc = "call"
    /\ LET r == file_replace_after(rfile, rdata)
       IN  /\ rleft' = r.file
           /\ rpc' = IF ~ r.ended THEN "scanning"
                     ELSE IF r.raised THEN "raised" ELSE "done"
    /\ UNCHANGED << rfile, rdata >>

\* The text with every occurrence of a key replaced by its value, the
\* occurrences taken from the left in one pass over the text (the first key
\* of the mapping where several keys begin at the same place).
RECURSIVE Substituted(_, _)
Substituted(text, mapping) ==
    IF text = << >> THEN << >>
    ELSE LET here == { j \in 1..Len(mapping) :
                         /\ Len(mapping[j].key) <= Len(text)
                         /\ SubSeq(text, 1, Len(mapping[j].key)) = mapping[j].key }
             j    == CHOOSE x \in here : \A y \in here : x <= y
         IN  IF here = { } THEN << Head(text) >> \o Substituted(Tail(text), mapping)
             ELSE mapping[j].value \o
                  Substituted(SliceFrom(text, Len(mapping[j].key)), mapping)

\* no key is a substring of any value
NoKeyInValue(mapping) ==
    \A i, j \in 1..Len(mapping) : Find(mapping[j].value, mapping[i].key, 0) = -1

\* C14: after file_replace on an existing file, with a mapping in which no
\* key is a substring of any value, the file holds its former text with
\* every occurrence of every key replaced by the value of the key.
C14_ReplaceAll ==
    (rpc # "call" /\ rfile.exists /\ NoKeyInValue(rdata)) =>
        rleft = FileOf(Substituted(rfile.text, rdata))

\* a line with the text after the first occurrence of key replaced by value
Patched(line, key, value) ==
    SliceTo(line, Find(line, key, 0) + Len(key)) \o value

\* C15: after file_replace_after with one key (a key and a value within a
\* line, the key no substring of the value), every line of the former text
\* that holds the key is, in the file, that line up to the end of the key
\* followed by the value, whatever the number of such lines and whether
\* the value is shorter or longer than the text it replaces.
C15_PatchAll ==
    (/\ rpc # "call"
     /\ rfile.exists
     /\ Len(rdata) = 1
     /\ NoKeyInValue(rdata)
     /\ Find(rdata[1].key, << NL >>, 0) = -1) =>
        LET old == SplitLines(rfile.text)
            new == SplitLines(rleft.text)
        IN  \A i \in 1..Len(old) :
                Find(old[i], rdata[1].key, 0) # -1 =>
                    /\ i <= Len(new)
                    /\ new[i] = Patched(old[i], rdata[1].key, rdata[1].value)

\* the values of the mapping, end to end
RECURSIVE ValuesOf(_)
ValuesOf(mapping) ==
    IF mapping = << >> THEN << >> ELSE Head(mapping).value \o ValuesOf(Tail(mapping))

\* C30: for a file and a mapping with non-empty keys of which none is a
\* substring of a value, file_replace_after ends: the scan of every key
\* comes to its last iteration within the iterations followed, after at
\* most one replacement per character of the file and one more, so that
\* the text written is longer than the file by at most that many values.
C30_ScanEnds ==
    (/\ rpc # "call"
     /\ rfile.exists
     /\ \A j \in 1..Len(rdata) : rdata[j].key # << >>
     /\ NoKeyInValue(rdata)) =>
        /\ rpc \in {"done", "raised"}
        /\ Len(rleft.text) <=
               Len(rfile.text) + (Len(rfile.text) + 1) * Len(ValuesOf(rdata))

\* C30 witness: a key that occurs in two lines of the file was patched in
\* both with a value longer than what it replaced, and the call ended with
\* a longer file.
C30_Witness ==
    /\ rpc = "done"
    /\ Len(rdata) = 1
    /\ NoKeyInValue(rdata)
    /\ \E k \in 1..Len(rfile.text) :
          /\ rfile.text[k] = NL
          /\ Find(SliceTo(rfile.text, k - 1), rdata[1].key, 0) # -1
          /\ Find(SliceFrom(rfile.text, k), rdata[1].key, 0) # -1
    /\ Len(rdata[1].value) = 2
    /\ Len(rleft.text) >= Len(rfile.text) + 2 * Len(rdata[1].value)

\* C25: file_replace raises FileNotFoundError only for an absent file: for
\* every file that exists, the empty file and a substitution that yields
\* the empty text included, it raises nothing and writes the substituted
\* text back.
C25_NotFoundOnlyAbsent ==
    (rpc # "call" /\ rfile.exists) =>
        /\ rpc = "done"
        /\ rleft = FileOf(ReplaceAll(rfile.text, rdata))

\* C24: file_replace_after changes only text between the end of a key
\* match and the next line break: when no key of the mapping occurs in the
\* file, the file holds after the call the text it held before.
C24_NoMatchNoChange ==
    (/\ rpc = "done"
     /\ rfile.exists
     /\ \A j \in 1..Len(rdata) : Find(rfile.text, rdata[j].key, 0) = -1) =>
        rleft = rfile

(***************************************************************************)
(* util.py: directory_replace.  A directory of the disk is the sequence of *)
(* its entries in the order os.listdir gives them; an entry is a           *)
(* subdirectory with its own entries or a file with its text.              *)
(***************************************************************************)
\* the depth of the directory tree below the root
MaxFsDepth == 1

\* the names of the entries; "mk" is the name the filter looks for
FsNames == {"mk", "x"}

FsTexts == { << "a" >>, << "b" >> }

\* the mapping handed to directory_replace
PatchData == << [key |-> << "a" >>, value |-> << "b" >>] >>

FsFile(name, text) == [name |-> name, dir |-> FALSE, text |-> text, kids |-> << >>]

FsDir(name, kids) == [name |-> name, dir |-> TRUE, text |-> << >>, kids |-> kids]

\* the listings of a directory with at most d levels below it: up to two
\* entries, of different names
RECURSIVE FsListings(_)
FsListings(d) ==
    LET nodes == { FsFile(n, t) : n \in FsNames, t \in FsTexts } \cup
                   (IF d = 0 THEN { }
                    ELSE { FsDir(n, k) : n \in FsNames, k \in FsListings(d - 1) })
    IN  { << >> } \cup { << e >> : e \in nodes } \cup
        { << e[1], e[2] >> : e \in { x \in nodes \X nodes : x[1].name # x[2].name } }

\* the filters: None, or lambda path,file : file == 'Android.mk'
FsFilters == {"None", "mk"}

\* "filter is None or filter(path,item)"
Selected(filter, item) == filter = "None" \/ item.name = "mk"

\* directory_replace(path,contents,filter) on the listing at path, from the
\* i-th item on.  acc holds the listing as patched so far, the paths handed
\* to file_replace, and whether an exception ended the walk: open() raises
\* IsADirectoryError for a directory, file_replace raises FileNotFoundError.
RECURSIVE directory_walk(_, _, _, _, _, _)
directory_walk(path, listing, mapping, filter, i, acc) ==
    IF i > Len(listing) \/ acc.raised THEN acc
    ELSE LET item    == listing[i]
             abspath == Append(path, item.name)
             patch   == file_replace(FileOf(item.text), mapping)
             sub     == directory_walk(abspath, item.kids, mapping, filter, 1,
                           [raised |-> FALSE, handed |-> acc.handed, listing |-> item.kids])
             next    ==
                 IF Selected(filter, item)
                 THEN IF item.dir
                      THEN [acc EXCEPT !.raised = TRUE,
                                       !.handed = Append(@, abspath)]
                      ELSE [raised  |-> patch.raised,
                            handed  |-> Append(acc.handed, abspath),
                            listing |-> [acc.listing EXCEPT ![i].text = patch.file.text]]
                 ELSE IF item.dir
                 THEN [raised  |-> sub.raised,
                       handed  |-> sub.handed,
                       listing |-> [acc.listing EXCEPT ![i].kids = sub.listing]]
                 ELSE acc
         IN  directory_walk(path, listing, mapping, filter, i + 1, next)

directory_replace(listing, mapping, filter) ==
    directory_walk(<< >>, listing, mapping, filter, 1,
                   [raised |-> FALSE, handed |-> << >>, listing |-> listing])

VARIABLES
    droot,      \* the directory at path before the call
    dfilter,    \* the argument filter
    dhanded,    \* the paths handed to file_replace, in order
    dleft,      \* the directory at path after the call
    dpc         \* "call", "done", "raised"

dvars == << droot, dfilter, dhanded, dleft, dpc >>

DInit ==
    /\ droot \in FsListings(MaxFsDepth)
    /\ dfilter \in FsFilters
    /\ dhanded = << >>
    /\ dleft = droot
    /\ dpc = "call"

\* no call of directory_replace under way
DRest ==
    /\ droot = << >>
    /\ dfilter = "None"
    /\ dhanded = << >>
    /\ dleft = << >>
    /\ dpc = "call"

DirectoryReplace ==
    /\ dpc = "call"
    /\ LET r == directory_replace(droot, PatchData, dfilter)
       IN  /\ dhanded' = r.handed
           /\ dleft' = r.listing
           /\ dpc' = IF r.raised THEN "raised" ELSE "done"
    /\ UNCHANGED << droot, dfilter >>

\* the node of a listing at a path
RECURSIVE FsNode(_, _)
FsNode(listing, path) ==
    LET k == CHOOSE j \in 1..Len(listing) : listing[j].name = Head(path)
    IN  IF Len(path) = 1 THEN listing[k] ELSE FsNode(listing[k].kids, Tail(path))

\* the paths of the files the call has to patch: below the root and below
\* every directory that is descended into, the files the filter selects
RECURSIVE FsToPatch(_, _, _)
FsToPatch(path, listing, filter) ==
    UNION { LET item == listing[i]
            IN  IF item.dir
                THEN IF filter = "None" \/ ~ Selected(filter, item)
                     THEN FsToPatch(Append(path, item.name), item.kids, filter)
                     ELSE { }
                ELSE IF Selected(filter, item) THEN { Append(path, item.name) } ELSE { }
            : i \in 1..Len(listing) }

HandedSet == { dhanded[i] : i \in 1..Len(dhanded) }

\* C16: directory_replace hands to file_replace every file the filter
\* selects (every file, without a filter) in the root and in every
\* directory below it that the filter does not select (every directory,
\* without a filter), and never hands it a directory.
C16_DirectoryReplace ==
    dpc # "call" =>
        /\ \A i \in 1..Len(dhanded) : ~ FsNode(droot, dhanded[i]).dir
        /\ FsToPatch(<< >>, droot, dfilter) \subseteq HandedSet

(***************************************************************************)
(* The consumers of the source tree: apple.py populate_assets and          *)
(* populate_sources, windows.py populate_sources (expand_headers,          *)
(* expand_sources), android.py config_ndkmake (expand_sources).  A         *)
(* project is the dict of its sections; a block is the record of what its  *)
(* text says: its identifier, its isa kind, the comment that marks it and  *)
(* the identifiers it lists.  An entry made from an item of the source     *)
(* tree keeps the tag of that item next to it.                             *)
(***************************************************************************)
\* the files of config['source_tree']
MaxSourceFiles == 2
\* the entries of config['asset_list']
MaxAssets == 1

SourceTags == {"all", "android", "ios", "windows"}

SourcePaths == { << "a" >>, << "b" >>, << "b", "a" >>, << "b", "b", "a" >> }

\* SOURCE_EXT of apple.py, of windows.py and of android.py
APPLE_SOURCE_EXT == {".cpp", ".c", ".cc", ".cxx", ".m", ".mm", ".asm", ".asmx", ".swift"}

WINDOWS_SOURCE_EXT ==
    {".cpp", ".c", ".cc", ".cxx", ".m", ".mm", ".def", ".odl", ".idl", ".hpj", ".bat",
     ".asm", ".asmx"}

ANDROID_SOURCE_EXT == {".cpp", ".c", ".cc", ".cxx", ".asm", ".asmx"}

\* os.path.splitext(name)[1]: the file a is a.cpp, the file b is b.h
Extension(name) == IF name = "a" THEN ".cpp" ELSE ".h"

\* the trees config['source_tree'] holds after up to n files
RECURSIVE SourceTrees(_)
SourceTrees(n) ==
    IF n = 0 THEN { << >> }
    ELSE UNION { {t} \cup { done.tree : done \in
                                { r \in { insert_filetree(t, x[1], x[2]) :
                                             x \in SourcePaths \X SourceTags } : r.ok } }
                 : t \in SourceTrees(n - 1) }

Assets == { [name |-> "t", kind |-> "file"], [name |-> "u", kind |-> "folder"] }

AssetLists == UNION { [1..n -> Assets] : n \in 0..MaxAssets }

\* 'ASSET://'+asset[0]
AssetSeed(name) == [kind |-> "ASSET", path |-> << name >>]

\* 'MACOS://'+uuid, 'IOS://'+uuid
BuildSeed(platform, uuid) == [kind |-> platform, path |-> uuid]

ASSET_PREFIX == << "A", "A" >>
MAC_RESOURCE_PREFIX == << "A", "B" >>
IOS_RESOURCE_PREFIX == << "A", "C" >>
MAC_SOURCE_PREFIX == << "B", "B" >>
IOS_SOURCE_PREFIX == << "B", "C" >>

MAC_TARGET == << "E", "B", "0" >>
IOS_TARGET == << "E", "B", "C" >>

\* the file seeds of a filetree rooted at path, in the order of the tree
RECURSIVE FileSeedSeq(_, _)
FileSeedSeq(path, filetree) ==
    IF filetree = << >> THEN << >>
    ELSE (IF Head(filetree).dir
          THEN FileSeedSeq(Append(path, Head(filetree).name), Head(filetree).kids)
          ELSE << FileSeed(Append(path, Head(filetree).name)) >>)
         \o FileSeedSeq(path, Tail(filetree))

RECURSIVE GroupSeeds(_, _)
GroupSeeds(path, filetree) ==
    {GroupSeed(path)} \cup
    UNION { IF filetree[i].dir
            THEN GroupSeeds(Append(path, filetree[i].name), filetree[i].kids)
            ELSE {} : i \in 1..Len(filetree) }

FileDigits == << "2", "3", "4", "5" >>

\* The hashes of the seeds that are no groups, all different: the k-th
\* file of the tree, an asset, the build file of an identifier.
FileHashes(path, filetree) ==
    LET seeds == FileSeedSeq(path, filetree)
    IN  [s \in { seeds[k] : k \in 1..Len(seeds) } |->
            << "F", FileDigits[CHOOSE k \in 1..Len(seeds) : seeds[k] = s] >>]

AssetHashes == [s \in { AssetSeed(a.name) : a \in Assets } |-> << "9", s.path[1] >>]

BuildHashes(ns, path, filetree) ==
    LET raw(v) == IF ns = "apple" THEN AppleHash(v) ELSE WindowsHash(v)
        fh     == FileHashes(path, filetree)
        ids    == { applyPrefix(FILE_PREFIX, raw(fh[s])) : s \in DOMAIN fh }
                  \cup { applyPrefix(ASSET_PREFIX, raw(AssetHashes[s])) : s \in DOMAIN AssetHashes }
    IN  [s \in { BuildSeed(p, id) : p \in {"MACOS", "IOS"}, id \in ids } |->
            << (IF s.kind = "MACOS" THEN "7" ELSE "8"), s.path[Len(s.path)] >>]

\* the hashes of all the seeds of a run, hg those of the groups
SeedHashes(ns, path, filetree, hg) ==
    hg @@ FileHashes(path, filetree) @@ AssetHashes @@ BuildHashes(ns, path, filetree)

\* "if len(config['source_tree']) == 1": the tree below the only key
SingleKey(source_tree) == Len(source_tree) = 1

SourceDir(source_tree) ==
    IF SingleKey(source_tree) THEN << source_tree[1].name >> ELSE << >>

\* "filetree = filetree[key]"; a file under the only key has no items to
\* go through as a dict (TypeError)
SourceFiles(source_tree) ==
    IF SingleKey(source_tree) THEN source_tree[1].kids ELSE source_tree

SourceIsDict(source_tree) == SingleKey(source_tree) => source_tree[1].dir

\* no identifier: None, no fileRef
NoRef == << >>

\* a block that lists identifiers: a group, a build phase
ListBlock(id, isa, mark, list) ==
    [id |-> id, isa |-> isa, mark |-> mark, list |-> list, ref |-> NoRef, tag |-> ""]

\* '%s /* %s */ = {isa = PBXFileReference; ...'
FileReferenceBlock(id, tag) ==
    [id |-> id, isa |-> "PBXFileReference", mark |-> "", list |-> << >>,
     ref |-> NoRef, tag |-> tag]

\* '%s /* %s in Sources */ = {isa = PBXBuildFile; fileRef = %s ...'
BuildFileBlock(id, ref, tag) ==
    [id |-> id, isa |-> "PBXBuildFile", mark |-> "", list |-> << >>,
     ref |-> ref, tag |-> tag]

\* a native target: MAC_TARGET or IOS_TARGET in it, its build phases
TargetBlock(id, resources, sources) ==
    [id |-> id, isa |-> "PBXNativeTarget", resources |-> resources, sources |-> sources]

\* '%s /* %s */,'
ListEntry(id, tag) == [id |-> id, tag |-> tag]

\* the project of the template, as parse_pbxproj returns it
TemplateProject ==
    [PBXBuildFile           |-> << >>,
     PBXFileReference       |-> << >>,
     PBXGroup               |-> << ListBlock(<< "E", "0", "1" >>, "PBXGroup", "Assets", << >>),
                                   ListBlock(<< "E", "0", "2" >>, "PBXGroup", "Source", << >>) >>,
     PBXNativeTarget        |-> << TargetBlock(MAC_TARGET, << "E", "0", "3" >>, << "E", "0", "5" >>),
                                   TargetBlock(IOS_TARGET, << "E", "0", "4" >>, << "E", "0", "6" >>) >>,
     PBXResourcesBuildPhase |-> << ListBlock(<< "E", "0", "3" >>, "PBXResourcesBuildPhase", "Resources", << >>),
                                   ListBlock(<< "E", "0", "4" >>, "PBXResourcesBuildPhase", "Resources", << >>) >>,
     PBXSourcesBuildPhase   |-> << ListBlock(<< "E", "0", "5" >>, "PBXSourcesBuildPhase", "Sources", << >>),
                                   ListBlock(<< "E", "0", "6" >>, "PBXSourcesBuildPhase", "Sources", << >>) >>]

\* The loops "for obj in pbxproj['PBXNativeTarget']": the phase named by
\* the last target that holds the target identifier, NoRef (None) without.
PhaseOf(targets, target, phase) ==
    LET hits == { i \in 1..Len(targets) : targets[i].id = target }
        last == CHOOSE i \in hits : \A j \in hits : j <= i
    IN  IF hits = {} THEN NoRef
        ELSE IF phase = "Resources" THEN targets[last].resources
        ELSE targets[last].sources

\* place_entries on a block that holds the list: the entries go in right
\* after the line that opens it
PlaceIds(block, ids) == [block EXCEPT !.list = ids \o block.list]

\* pbxproj[section].append(block)
AddBlock(proj, section, block) == [proj EXCEPT ![section] = Append(@, block)]

\* the loop "for asset in config['asset_list']" from the i-th asset on
RECURSIVE assets_loop(_, _, _, _)
assets_loop(asset_list, h, i, acc) ==
    IF i > Len(asset_list) \/ ~ acc.ok THEN acc
    ELSE LET asset == asset_list[i]
             first == ServiceCall("apple", acc.svc, AssetSeed(asset.name), h)
             uuid  == applyPrefix(ASSET_PREFIX, first.id)
             mac   == ServiceCall("apple", first.svc, BuildSeed("MACOS", uuid), h)
             macid == applyPrefix(MAC_RESOURCE_PREFIX, mac.id)
             ios   == ServiceCall("apple", mac.svc, BuildSeed("IOS", uuid), h)
             iosid == applyPrefix(IOS_RESOURCE_PREFIX, ios.id)
             proj1 == AddBlock(acc.proj, "PBXFileReference", FileReferenceBlock(uuid, "asset"))
             proj2 == AddBlock(proj1, "PBXBuildFile", BuildFileBlock(macid, uuid, "asset"))
             proj3 == AddBlock(proj2, "PBXBuildFile", BuildFileBlock(iosid, uuid, "asset"))
             next  ==
                 IF ~ first.ok THEN [acc EXCEPT !.ok = FALSE]
                 ELSE IF ~ mac.ok
                 THEN [acc EXCEPT !.ok = FALSE, !.svc = first.svc, !.proj = proj1]
                 ELSE IF ~ ios.ok
                 THEN [acc EXCEPT !.ok = FALSE, !.svc = mac.svc, !.proj = proj2]
                 ELSE [ok       |-> TRUE,
                       svc      |-> ios.svc,
                       proj     |-> proj3,
                       children |-> Append(acc.children, ListEntry(uuid, "asset")),
                       macref   |-> Append(acc.macref, ListEntry(macid, "asset")),
                       iosref   |-> Append(acc.iosref, ListEntry(iosid, "asset"))]
         IN  assets_loop(asset_list, h, i + 1, next)

\* the loops "for pos in range(len(groups))" over a section: the blocks
\* that carry the mark get the entries
PlaceInMarked(blocks, mark, ids) ==
    [k \in 1..Len(blocks) |->
        IF blocks[k].mark = mark THEN PlaceIds(blocks[k], ids) ELSE blocks[k]]

\* the blocks that hold the identifier of the phase of the macOS target
\* get macref, else those of the iOS target get iosref
PlaceInPhases(blocks, macphase, iosphase, macref, iosref) ==
    [k \in 1..Len(blocks) |->
        IF macphase # NoRef /\ blocks[k].id = macphase THEN PlaceIds(blocks[k], macref)
        ELSE IF iosphase # NoRef /\ blocks[k].id = iosphase THEN PlaceIds(blocks[k], iosref)
        ELSE blocks[k]]

populate_assets(asset_list, proj, svc, h) ==
    LET mac_rsc == PhaseOf(proj.PBXNativeTarget, MAC_TARGET, "Resources")
        ios_rsc == PhaseOf(proj.PBXNativeTarget, IOS_TARGET, "Resources")
        start   == [ok |-> TRUE, svc |-> svc, proj |-> proj,
                    children |-> << >>, macref |-> << >>, iosref |-> << >>]
        done    == assets_loop(asset_list, h, 1, start)
    IN  IF ~ done.ok THEN [ok |-> FALSE, svc |-> done.svc, proj |-> done.proj]
        ELSE [ok   |-> TRUE,
              svc  |-> done.svc,
              proj |-> [done.proj EXCEPT
                          !.PBXGroup = PlaceInMarked(@, "Assets", done.children),
                          !.PBXResourcesBuildPhase =
                              PlaceInPhases(@, mac_rsc, ios_rsc, done.macref, done.iosref)]]

\* "if item[2] != 'group': files.append(item)" over the items of a list
NonGroups(kids) == SelectSeq(kids, LAMBDA item : item.tag # "group")

\* '%s /* %s */,' for every item of a list
ChildEntries(kids) == [k \in 1..Len(kids) |-> ListEntry(kids[k].id, kids[k].tag)]

\* The loop "for key in result" from the j-th key on: every group but the
\* root is appended to PBXGroup, its files are added to the list files.
RECURSIVE groups_loop(_, _, _, _)
groups_loop(reg, uuid, j, acc) ==
    IF j > Len(reg) THEN acc
    ELSE groups_loop(reg, uuid, j + 1,
            IF reg[j].key = uuid THEN acc
            ELSE [files |-> acc.files \o NonGroups(reg[j].kids),
                  proj  |-> AddBlock(acc.proj, "PBXGroup",
                               ListBlock(reg[j].key, "PBXGroup", "", ChildEntries(reg[j].kids)))])

MAC_TAGS == {"all", "apple", "macos"}

IOS_TAGS == {"all", "apple", "ios"}

\* the loop "for item in files" from the i-th file on
RECURSIVE files_loop(_, _, _, _)
files_loop(list, h, i, acc) ==
    IF i > Len(list) \/ ~ acc.ok THEN acc
    ELSE LET item   == list[i]
             proj1  == AddBlock(acc.proj, "PBXFileReference",
                                   FileReferenceBlock(item.id, item.tag))
             source == Extension(item.item) \in APPLE_SOURCE_EXT
             domac  == source /\ item.tag \in MAC_TAGS
             doios  == source /\ item.tag \in IOS_TAGS
             mac    == ServiceCall("apple", acc.svc, BuildSeed("MACOS", item.id), h)
             macid  == applyPrefix(MAC_SOURCE_PREFIX, mac.id)
             svc1   == IF domac THEN mac.svc ELSE acc.svc
             proj2  == IF domac
                       THEN AddBlock(proj1, "PBXBuildFile", BuildFileBlock(macid, item.id, item.tag))
                       ELSE proj1
             ios    == ServiceCall("apple", svc1, BuildSeed("IOS", item.id), h)
             iosid  == applyPrefix(IOS_SOURCE_PREFIX, ios.id)
             next   ==
                 IF domac /\ ~ mac.ok THEN [acc EXCEPT !.ok = FALSE, !.proj = proj1]
                 ELSE IF doios /\ ~ ios.ok
                 THEN [acc EXCEPT !.ok = FALSE, !.svc = svc1, !.proj = proj2]
                 ELSE [ok     |-> TRUE,
                       svc    |-> IF doios THEN ios.svc ELSE svc1,
                       proj   |-> IF doios
                                  THEN AddBlock(proj2, "PBXBuildFile",
                                                   BuildFileBlock(iosid, item.id, item.tag))
                                  ELSE proj2,
                       macref |-> IF domac THEN Append(acc.macref, ListEntry(macid, item.tag))
                                  ELSE acc.macref,
                       iosref |-> IF doios THEN Append(acc.iosref, ListEntry(iosid, item.tag))
                                  ELSE acc.iosref]
         IN  files_loop(list, h, i + 1, next)

\* apple.py populate_sources; ok = FALSE is the error that ends it.  The
\* registry, the groups appended and the files appended are each computed
\* once and handed on.
populate_sources(source_tree, proj, svc, h) ==
    LET mac_src == PhaseOf(proj.PBXNativeTarget, MAC_TARGET, "Sources")
        ios_src == PhaseOf(proj.PBXNativeTarget, IOS_TARGET, "Sources")
        Placed(filed) ==
            IF ~ filed.ok THEN [ok |-> FALSE, svc |-> filed.svc, proj |-> filed.proj]
            ELSE [ok   |-> TRUE,
                  svc  |-> filed.svc,
                  proj |-> [filed.proj EXCEPT
                              !.PBXSourcesBuildPhase =
                                  PlaceInPhases(@, mac_src, ios_src,
                                                filed.macref, filed.iosref)]]
        Filed(built, grouped) ==
            CHOOSE r \in { Placed(filed) : filed \in
                              { files_loop(grouped.files, h, 1,
                                           [ok |-> TRUE, svc |-> built.svc,
                                            proj |-> grouped.proj,
                                            macref |-> << >>, iosref |-> << >>]) } } : TRUE
        Grouped(built) ==
            LET tops   == built.result[RegIndex(built.result, built.uuid)].kids
                rooted == [proj EXCEPT
                             !.PBXGroup = PlaceInMarked(@, "Source", ChildEntries(tops))]
            IN  CHOOSE r \in { Filed(built, grouped) : grouped \in
                                  { groups_loop(built.result, built.uuid, 1,
                                                [files |-> NonGroups(tops),
                                                 proj |-> rooted]) } } : TRUE
        Built(built) ==
            IF ~ built.ok THEN [ok |-> FALSE, svc |-> svc, proj |-> proj]
            ELSE Grouped(built)
    IN  IF ~ SourceIsDict(source_tree) THEN [ok |-> FALSE, svc |-> svc, proj |-> proj]
        ELSE CHOOSE r \in { Built(built) : built \in
                               { build_groups(SourceDir(source_tree),
                                              SourceFiles(source_tree), svc, h) } } : TRUE

WINDOWS_TAGS == {"all", "windows"}

ANDROID_TAGS == {"all", "android"}

\* one line of a generated file: the element, the path of the file, its tag
SourceLine(kind, path, tag) == [kind |-> kind, path |-> path, tag |-> tag]

\* windows.py expand_headers and expand_sources: the entries of the group
\* uuid of the registry from the i-th on, headers or sources
RECURSIVE expand_entries(_, _, _, _, _)
expand_entries(sources, path, uuid, registry, i) ==
    LET groups == registry[RegIndex(registry, uuid)].kids
        entry  == groups[i]
        isfile == /\ entry.tag \in WINDOWS_TAGS
                  /\ (Extension(entry.item) \in WINDOWS_SOURCE_EXT) = sources
        here   == IF isfile
                  THEN << SourceLine(IF sources THEN "ClCompile" ELSE "ClInclude",
                                     Append(path, entry.item), entry.tag) >>
                  ELSE IF entry.tag = "group"
                  THEN expand_entries(sources, Append(path, entry.item), entry.id, registry, 1)
                  ELSE << >>
    IN  IF i > Len(groups) THEN << >>
        ELSE here \o expand_entries(sources, path, uuid, registry, i + 1)

expand_headers(path, uuid, registry) == expand_entries(FALSE, path, uuid, registry, 1)

expand_sources(path, uuid, registry) == expand_entries(TRUE, path, uuid, registry, 1)

\* windows.py populate_sources: the entries written to the filters file
\* and to the project file
vs_populate_sources(source_tree, svc, h) ==
    LET built == build_filters(SourceDir(source_tree), SourceFiles(source_tree), svc, h)
        lines == expand_headers(<< >>, built.uuid, built.result)
                 \o expand_sources(<< >>, built.uuid, built.result)
    IN  IF ~ SourceIsDict(source_tree) \/ ~ built.ok
        THEN [ok |-> FALSE, svc |-> svc, lines |-> << >>]
        ELSE [ok |-> TRUE, svc |-> built.svc, lines |-> lines \o lines]

\* android.py expand_sources, from the i-th key of the filetree on
RECURSIVE mk_expand_sources(_, _, _)
mk_expand_sources(path, filetree, i) ==
    IF i > Len(filetree) THEN << >>
    ELSE LET node == filetree[i]
             here == IF node.dir
                     THEN mk_expand_sources(Append(path, node.name), node.kids, 1)
                     ELSE IF node.tag \in ANDROID_TAGS /\ Extension(node.name) \in ANDROID_SOURCE_EXT
                     THEN << SourceLine("mk", Append(path, node.name), node.tag) >>
                     ELSE << >>
         IN  here \o mk_expand_sources(path, filetree, i + 1)

\* android.py config_ndkmake: contents['__SOURCE_FILES__']
config_ndkmake(source_tree) ==
    IF ~ SourceIsDict(source_tree) THEN [ok |-> FALSE, lines |-> << >>]
    ELSE [ok |-> TRUE,
          lines |-> mk_expand_sources(SourceDir(source_tree), SourceFiles(source_tree), 1)]

VARIABLES
    xtree,      \* config['source_tree']
    xassets,    \* config['asset_list']
    xproj,      \* pbxproj
    xsvc,       \* config['uuids']
    xlines,     \* the entries of the files written for Visual Studio, Android
    xpc         \* "start", "assets", "xcode", "vs", "mk", "raised"

xvars == << xtree, xassets, xproj, xsvc, xlines, xpc >>

XInit ==
    /\ xtree \in SourceTrees(MaxSourceFiles)
    /\ xassets \in AssetLists
    /\ xproj = TemplateProject
    /\ xsvc = EmptyService
    /\ xlines = << >>
    /\ xpc = "start"

\* no generator under way
XRest ==
    /\ xtree = << >>
    /\ xassets = << >>
    /\ xproj = TemplateProject
    /\ xsvc = EmptyService
    /\ xlines = << >>
    /\ xpc = "start"

\* apple.py make: populate_assets(config,pbxproj)
PopulateAssets ==
    /\ xpc = "start"
    /\ \E h \in { SeedHashes("apple", SourceDir(xtree), SourceFiles(xtree), << >>) } :
          \E done \in { populate_assets(xassets, xproj, xsvc, h) } :
              /\ xproj' = done.proj
              /\ xsvc' = done.svc
              /\ xpc' = IF done.ok THEN "assets" ELSE "raised"
    /\ UNCHANGED << xtree, xassets, xlines >>

\* apple.py make: populate_sources(config,pbxproj)
PopulateSources ==
    /\ xpc = "assets"
    /\ \E rest \in { SeedHashes("apple", SourceDir(xtree), SourceFiles(xtree), << >>) } :
          \E hg \in [GroupSeeds(SourceDir(xtree), SourceFiles(xtree)) -> HashValues] :
              \E done \in { populate_sources(xtree, xproj, xsvc, hg @@ rest) } :
                  /\ xproj' = done.proj
                  /\ xsvc' = done.svc
                  /\ xpc' = IF done.ok THEN "xcode" ELSE "raised"
    /\ UNCHANGED << xtree, xassets, xlines >>

\* windows.py make: populate_sources(config,project)
VisualStudioSources ==
    /\ xpc = "start"
    /\ \E rest \in { SeedHashes("windows", SourceDir(xtree), SourceFiles(xtree), << >>) } :
          \E hg \in [GroupSeeds(SourceDir(xtree), SourceFiles(xtree)) -> HashValues] :
              \E done \in { vs_populate_sources(xtree, xsvc, hg @@ rest) } :
                  /\ xlines' = done.lines
                  /\ xsvc' = done.svc
                  /\ xpc' = IF done.ok THEN "vs" ELSE "raised"
    /\ UNCHANGED << xtree, xassets, xproj >>

\* android.py make: config_ndkmake(config,project)
AndroidSources ==
    /\ xpc = "start"
    /\ \E done \in { config_ndkmake(xtree) } :
          /\ xlines' = done.lines
          /\ xpc' = IF done.ok THEN "mk" ELSE "raised"
    /\ UNCHANGED << xtree, xassets, xproj, xsvc >>

\* the blocks populate_assets and populate_sources appended to a section
Appended(section) ==
    { xproj[section][k] : k \in (Len(TemplateProject[section]) + 1)..Len(xproj[section]) }

AppendedBlocks ==
    Appended("PBXFileReference") \cup Appended("PBXBuildFile") \cup Appended("PBXGroup")

\* the entries the two steps wrote into the lists of the project
ListedIn(blocks) ==
    UNION { { blocks[k].list[i] : i \in 1..Len(blocks[k].list) } : k \in 1..Len(blocks) }

ListedEntries ==
    ListedIn(xproj.PBXGroup) \cup ListedIn(xproj.PBXResourcesBuildPhase)
        \cup ListedIn(xproj.PBXSourcesBuildPhase)

\* the tags of the source tree that name a platform
APPLE_TAGS == {"all", "apple", "macos", "ios"}

FromSourceTree(tag) == tag \notin {"group", "asset", ""}

\* the leaves of a filetree: the name and the tag of each
RECURSIVE Leaves(_)
Leaves(filetree) ==
    UNION { IF filetree[i].dir THEN Leaves(filetree[i].kids)
            ELSE { << filetree[i].name, filetree[i].tag >> } : i \in 1..Len(filetree) }

\* C17: every file entry a generator emits (Xcode file references, group
\* children and build files; Visual Studio ClCompile and ClInclude entries;
\* Android.mk source lines) comes from a leaf of the source tree whose tag
\* is all or names the platform generated.
C17_TagFilter ==
    /\ xpc = "xcode" =>
          /\ \A b \in AppendedBlocks : FromSourceTree(b.tag) => b.tag \in APPLE_TAGS
          /\ \A e \in ListedEntries : FromSourceTree(e.tag) => e.tag \in APPLE_TAGS
    /\ xpc = "vs" =>
          \A k \in 1..Len(xlines) :
              /\ xlines[k].tag \in WINDOWS_TAGS
              /\ << xlines[k].path[Len(xlines[k].path)], xlines[k].tag >> \in Leaves(xtree)
    /\ xpc = "mk" =>
          \A k \in 1..Len(xlines) :
              /\ xlines[k].tag \in ANDROID_TAGS
              /\ IsLeaf(xtree, xlines[k].path, xlines[k].tag)

\* C19: after populate_assets and populate_sources every identifier they
\* wrote into a list (group children, resource and source build-phase
\* files) is the identifier of a block they appended, and every appended
\* block is in the section of its isa kind.
C19_Defined ==
    xpc = "xcode" =>
        /\ \A e \in ListedEntries : \E b \in AppendedBlocks : b.id = e.id
        /\ \A section \in {"PBXFileReference", "PBXBuildFile", "PBXGroup"} :
              \A b \in Appended(section) : b.isa = section

\* C28: for every source tree with a leaf, the generators populate the
\* sources without error; a tree whose only top-level entry is a leaf (one
\* source file at the root of the project) included.
C28_SourcesComplete ==
    Leaves(xtree) # { } => xpc # "raised"

(***************************************************************************)
(* The generators: make of android.py, apple.py and windows.py, as the     *)
(* steps they call in order.  The config is the set of its keys (and       *)
(* whether the appid holds a period); the build directory is the list of   *)
(* the operations done in it.  A step checks keys with check_config_keys,  *)
(* then works: each piece of work reads keys of the config (a missing key  *)
(* is a plain KeyError) and does at most one operation on the build        *)
(* directory.                                                              *)
(***************************************************************************)
\* the keys a config may lack
MaxMissing == 1

ConfigKeys ==
    {"root", "build", "camel", "appid", "assets", "orientation", "build_to_root",
     "sources", "build_to_sdl2", "sdl2", "name", "short"}

Configs ==
    { [keys |-> (ConfigKeys \ gone) \cup icon, dotted |-> d] :
         gone \in { g \in SUBSET ConfigKeys : Cardinality(g) <= MaxMissing },
         icon \in { {}, {"icon"} },
         d \in BOOLEAN }

\* util.check_config_keys: TRUE if it returns, FALSE if it raises
check_config_keys(config, wanted) == wanted \subseteq config.keys

\* a piece of work: the keys it reads, the operation ("" if it only reads)
Work(needs, op) == [needs |-> needs, op |-> op]

\* a step of make: the keys it checks, whether it tests the appid for a
\* period, the key that must be there for the step to run at all ("" if
\* none), its work
MakeStep(checked, period, only, work) ==
    [checked |-> checked, period |-> period, only |-> only, work |-> work]

\* android.py make: place_project, config_settings, config_ndkmake,
\* config_cmake, "if 'icon' in config"
AndroidMake ==
    << MakeStep({"root", "build", "camel", "appid"}, TRUE, "",
          << Work({"build"}, "mkdir"),
             Work({}, "remake_dir"),
             Work({"sdl2", "camel"}, "copytree"),
             Work({"appid"}, "mkdir"),
             Work({"camel"}, "move") >>),
       MakeStep({"camel", "appid", "assets", "orientation", "build_to_root"}, FALSE, "",
          << Work({"camel"}, "file_replace"),
             Work({"build_to_root", "assets", "appid"}, "file_replace"),
             Work({"camel", "orientation"}, "file_replace"),
             Work({"appid", "camel"}, "file_replace"),
             Work({"name"}, "file_replace") >>),
       MakeStep({"sources", "build_to_root", "build_to_sdl2"}, FALSE, "",
          << Work({"build_to_sdl2", "build_to_root"}, "directory_replace"),
             Work({}, "file_replace") >>),
       MakeStep({"sources", "build_to_root", "build_to_sdl2"}, FALSE, "",
          << Work({"short", "name", "build_to_sdl2", "build_to_root", "assets", "sources"},
                  "file_replace") >>),
       MakeStep({}, FALSE, "icon", << Work({}, "gen_android") >>) >>

\* apple.py make: place_project, parse_pbxproj to filter_targets,
\* write_pbxproj, update_schemes, "if 'icon' in config"
AppleMake ==
    << MakeStep({"root", "build", "camel"}, FALSE, "",
          << Work({"build"}, "mkdir"),
             Work({}, "remake_dir"),
             Work({"sdl2", "camel"}, "copytree"),
             Work({"sdl2"}, "copytree") >>),
       MakeStep({}, FALSE, "",
          << Work({"build_to_sdl2", "build_to_root", "assets", "appid", "short", "name"}, ""),
             Work({"orientation"}, ""),
             Work({"build_to_root"}, "") >>),
       MakeStep({}, FALSE, "", << Work({}, "write") >>),
       MakeStep({}, FALSE, "",
          << Work({"short"}, "file_replace"),
             Work({"name", "camel"}, "move"),
             Work({}, "file_replace") >>),
       MakeStep({}, FALSE, "icon", << Work({}, "gen_macos"), Work({}, "gen_ios") >>) >>

\* windows.py make: place_project, reassign_vcxproj, populate_sources,
\* "if 'icon' in config"
WindowsMake ==
    << MakeStep({"root", "build", "camel"}, FALSE, "",
          << Work({"build"}, "mkdir"),
             Work({}, "remake_dir"),
             Work({"camel", "sdl2"}, "copy"),
             Work({"sdl2"}, "copytree"),
             Work({"sdl2"}, "copytree"),
             Work({"camel"}, "move") >>),
       MakeStep({}, FALSE, "",
          << Work({"build_to_sdl2", "build_to_root", "assets", "camel"}, "file_replace"),
             Work({}, "file_replace") >>),
       MakeStep({}, FALSE, "",
          << Work({"camel", "build_to_root"}, "file_replace"),
             Work({}, "file_replace") >>),
       MakeStep({}, FALSE, "icon", << Work({}, "remove"), Work({}, "gen_windows") >>) >>

\* The work of a step from its i-th piece on: the operations done, and
\* whether a key was missing on the way (KeyError).
RECURSIVE do_work(_, _, _, _)
do_work(config, work, i, ops) ==
    IF i > Len(work) THEN [pc |-> "run", ops |-> ops]
    ELSE IF ~ (work[i].needs \subseteq config.keys) THEN [pc |-> "keyerror", ops |-> ops]
    ELSE do_work(config, work, i + 1,
                 IF work[i].op = "" THEN ops ELSE Append(ops, work[i].op))

\* One step: "missing" is the KeyError of check_config_keys, "valueerror"
\* the appid without period.
do_step(config, step) ==
    IF step.only # "" /\ step.only \notin config.keys THEN [pc |-> "run", ops |-> << >>]
    ELSE IF ~ check_config_keys(config, step.checked) THEN [pc |-> "missing", ops |-> << >>]
    ELSE IF step.period /\ ~ config.dotted THEN [pc |-> "valueerror", ops |-> << >>]
    ELSE do_work(config, step.work, 1, << >>)

VARIABLES
    mconfig,    \* config
    mplat,      \* the generator: "android", "apple", "windows"
    mstep,      \* the step of make to run next
    mfiles,     \* the operations done in the build directory so far
    mpc         \* "run", "done", "missing", "keyerror", "valueerror"

mvars == << mconfig, mplat, mstep, mfiles, mpc >>

MInit ==
    /\ mconfig \in Configs
    /\ mplat \in {"android", "apple", "windows"}
    /\ mstep = 1
    /\ mfiles = << >>
    /\ mpc = "run"

\* no generator called
MRest ==
    /\ mconfig = [keys |-> {}, dotted |-> FALSE]
    /\ mplat = "none"
    /\ mstep = 1
    /\ mfiles = << >>
    /\ mpc = "run"

\* the next step of the steps of a generator
NextStep(steps) ==
    /\ mpc = "run"
    /\ mstep <= Len(steps)
    /\ \E out \in { do_step(mconfig, steps[mstep]) } :
          /\ mfiles' = mfiles \o out.ops
          /\ mstep' = IF out.pc = "run" THEN mstep + 1 ELSE mstep
          /\ mpc' = IF out.pc = "run" /\ mstep = Len(steps) THEN "done" ELSE out.pc
    /\ UNCHANGED << mconfig, mplat >>

\* android.py make
AndroidMakeStep == mplat = "android" /\ NextStep(AndroidMake)

\* apple.py make
AppleMakeStep == mplat = "apple" /\ NextStep(AppleMake)

\* windows.py make
WindowsMakeStep == mplat = "windows" /\ NextStep(WindowsMake)

\* C18: a missing required field is reported before any output file is
\* touched: when check_config_keys raises, in any generator, no deletion,
\* copy or write has been done in the build directory.
C18_CheckFirst == mpc = "missing" => mfiles = << >>

(***************************************************************************)
(* apple.py: filter_targets.  A block of the section PBXNativeTarget is    *)
(* known by its place in the section handed over and by the markers its    *)
(* text holds: macos ('macos' in section[pos]) and ios ('ios' in           *)
(* section[pos]).  Positions count from 0, as in the code.                 *)
(***************************************************************************)
\* the blocks of the section PBXNativeTarget
MaxTargets == 3

TargetNames == {"apple", "ios", "macos"}

NativeTargets ==
    UNION { { [k \in 1..n |-> [id |-> k, macos |-> m[k][1], ios |-> m[k][2]]] :
                m \in [1..n -> BOOLEAN \X BOOLEAN] } : n \in 0..MaxTargets }

\* the first loop: "rems.append(pos)" for the blocks that hold the marker
\* of the platform left out (rems is used for "in rems" only: a set)
find_rems(targets, section) ==
    { posn \in 0..(Len(section) - 1) :
        \/ "ios" \in targets /\ section[posn + 1].macos
        \/ "macos" \in targets /\ section[posn + 1].ios }

\* filter_targets(config,pbxproj), targets = config['targets'] as a list
filter_targets(targets, pbxproj) ==
    IF "apple" \in targets THEN pbxproj
    ELSE [pbxproj EXCEPT !.PBXNativeTarget = delete_loop(@, find_rems(targets, @), 0, 0)]

VARIABLES
    hproj,      \* the sections PBXNativeTarget and PBXProject of the model
    horig,      \* the sections handed to filter_targets
    htargets,   \* config['targets']
    hpc         \* "start", "done"

hvars == << hproj, horig, htargets, hpc >>

HInit ==
    /\ hproj \in [PBXNativeTarget : NativeTargets,
                  PBXProject : { t \in NativeTargets : Len(t) = 1 }]
    /\ horig = hproj
    /\ htargets \in SUBSET TargetNames
    /\ hpc = "start"

HRest ==
    /\ hproj = [PBXNativeTarget |-> << >>, PBXProject |-> << >>]
    /\ horig = hproj
    /\ htargets = {}
    /\ hpc = "rest"

RetargetBuilds ==
    /\ hpc = "start"
    /\ hproj' = filter_targets(htargets, hproj)
    /\ hpc' = "done"
    /\ UNCHANGED << horig, htargets >>

(***************************************************************************)
(* Claim about filter_targets (checked under SpecFilter).                  *)
(***************************************************************************)
\* the blocks of section without those that hold the marker, in their order
RECURSIVE Without(_, _)
Without(section, marker) ==
    IF section = << >> THEN << >>
    ELSE (IF Head(section)[marker] THEN << >> ELSE << Head(section) >>)
         \o Without(Tail(section), marker)

\* C23: with only ios (only macos) among the targets, filter_targets
\* leaves in PBXNativeTarget the blocks that do not hold the marker macos
\* (ios), in their order, and deletes the others; with the target apple it
\* removes nothing; every other section is as it was.
C23_FilterTargets ==
    hpc = "done" =>
        /\ hproj.PBXProject = horig.PBXProject
        /\ htargets = {"ios"} =>
              hproj.PBXNativeTarget = Without(horig.PBXNativeTarget, "macos")
        /\ htargets = {"macos"} =>
              hproj.PBXNativeTarget = Without(horig.PBXNativeTarget, "ios")
        /\ "apple" \in htargets => hproj.PBXNativeTarget = horig.PBXNativeTarget

\* C23 witness: of three targets, the first and the last held the marker
\* macos and were deleted for an ios build; the middle one is left.
C23_Witness ==
    /\ hpc = "done"
    /\ htargets = {"ios"}
    /\ Len(horig.PBXNativeTarget) = 3
    /\ horig.PBXNativeTarget[1].macos /\ horig.PBXNativeTarget[3].macos
    /\ Len(hproj.PBXNativeTarget) = 1
    /\ hproj.PBXNativeTarget[1].id = 2

(***************************************************************************)
(* The include lists of the configuration, config['include_dict']: a dict  *)
(* of lists, shared by the generators that main calls in turn.  A list is  *)
(* the sequence of its directories; the key 'all' is in the dict only when *)
(* the configuration has an entry 'includes' (hasall).                     *)
(***************************************************************************)
\* the directories of one include list
MaxIncludes == 2

IncludeDirs == {"inc", "lib"}

IncludeLists == UNION { [1..n -> IncludeDirs] : n \in 0..MaxIncludes }

IncludeDicts ==
    [hasall : BOOLEAN, all : IncludeLists, apple : IncludeLists, android : IncludeLists]

\* "'all' in entries and entries['all']"
HasAll(incs) == incs.hasall /\ incs.all # << >>

\* reassign_pbxproj, the include lists of all Apple builds.  With 'all'
\* non-empty, allincludes is the list object of the dict itself, and
\* "allincludes += config['include_dict']['all']" extends that object in
\* place, by its own items.  Without the key 'all', the same statement
\* raises KeyError.
apple_includes(incs) ==
    IF incs.apple # << >> /\ ~ incs.hasall
    THEN [ok |-> FALSE, dict |-> incs, allincludes |-> << >>]
    ELSE IF HasAll(incs) /\ incs.apple # << >>
    THEN [ok |-> TRUE, dict |-> [incs EXCEPT !.all = @ \o @],
          allincludes |-> incs.all \o incs.all]
    ELSE [ok |-> TRUE, dict |-> incs,
          allincludes |-> IF HasAll(incs) THEN incs.all ELSE << >>]

\* config_ndkmake, "inclist": the lists of 'all' and 'android', copied by
\* extend (the directories of the source tree follow them)
android_includes(incs) ==
    (IF HasAll(incs) THEN incs.all ELSE << >>)
    \o (IF incs.android # << >> THEN incs.android ELSE << >>)

VARIABLES
    idict,      \* config['include_dict']
    iorig,      \* config['include_dict'] as main built it
    idone,      \* the generators that have run
    iseen,      \* the inclist of config_ndkmake
    ipc         \* "run", "raised" (KeyError)

ivars == << idict, iorig, idone, iseen, ipc >>

IInit ==
    /\ idict \in { d \in IncludeDicts : ~ d.hasall => d.all = << >> }
    /\ iorig = idict
    /\ idone = {}
    /\ iseen = << >>
    /\ ipc = "run"

IRest ==
    /\ idict = [hasall |-> FALSE, all |-> << >>, apple |-> << >>, android |-> << >>]
    /\ iorig = idict
    /\ idone = {}
    /\ iseen = << >>
    /\ ipc = "rest"

\* main: scripts.apple.make(config), the include lists of reassign_pbxproj
AppleIncludes ==
    /\ ipc = "run"
    /\ "apple" \notin idone
    /\ \E r \in { apple_includes(idict) } :
          /\ idict' = r.dict
          /\ ipc' = IF r.ok THEN "run" ELSE "raised"
    /\ idone' = idone \cup {"apple"}
    /\ UNCHANGED << iorig, iseen >>

\* main: scripts.android.make(config), the include lists of config_ndkmake
AndroidIncludes ==
    /\ ipc = "run"
    /\ "android" \notin idone
    /\ iseen' = android_includes(idict)
    /\ idone' = idone \cup {"android"}
    /\ UNCHANGED << idict, iorig, ipc >>

(***************************************************************************)
(* Claim about the include lists (checked under SpecIncludes).             *)
(***************************************************************************)
\* C27: generating the Apple project leaves config['include_dict'] as it
\* was, its list 'all' in particular, so that the Android generator sees
\* the same include lists after the Apple generator as before it.
C27_IncludesUnchanged ==
    /\ idict = iorig
    /\ "android" \in idone => iseen = android_includes(iorig)

(***************************************************************************)
(* The specifications: one per component, the other components at rest.    *)
(***************************************************************************)
vars == << pvars, uvars, fvars, tvars, evars, gvars, rvars, dvars, xvars, mvars, hvars, ivars >>

AllInit == PInit /\ UInit /\ FRest /\ TInit /\ ERest /\ GRest /\ RRest /\ DRest /\ XRest /\ MRest /\ HRest /\ IRest

\* a run of parse_pbxproj over one project file
ParseNext ==
    \/ ReadPlain /\ UNCHANGED << uvars, fvars, tvars, evars, gvars, rvars, dvars, xvars, mvars, hvars, ivars >>
    \/ ReadMiddle /\ UNCHANGED << uvars, fvars, tvars, evars, gvars, rvars, dvars, xvars, mvars, hvars, ivars >>
    \/ ReadBody /\ UNCHANGED << uvars, fvars, tvars, evars, gvars, rvars, dvars, xvars, mvars, hvars, ivars >>
    \/ OmitPlain /\ UNCHANGED << uvars, fvars, tvars, evars, gvars, rvars, dvars, xvars, mvars, hvars, ivars >>
    \/ ReadEOF /\ UNCHANGED << uvars, fvars, tvars, evars, gvars, rvars, dvars, xvars, mvars, hvars, ivars >>

SpecParse == AllInit /\ [][ParseNext]_vars

\* a run of make of apple.py, from the parse of the project file on
ProjectNext ==
    \/ ReadPlain /\ UNCHANGED << uvars, fvars, tvars, evars, gvars, rvars, dvars, xvars, mvars, hvars, ivars >>
    \/ ReadMiddle /\ UNCHANGED << uvars, fvars, tvars, evars, gvars, rvars, dvars, xvars, mvars, hvars, ivars >>
    \/ ReadBody /\ UNCHANGED << uvars, fvars, tvars, evars, gvars, rvars, dvars, xvars, mvars, hvars, ivars >>
    \/ OmitPlain /\ UNCHANGED << uvars, fvars, tvars, evars, gvars, rvars, dvars, xvars, mvars, hvars, ivars >>
    \/ ReadEOF /\ UNCHANGED << uvars, fvars, tvars, evars, gvars, rvars, dvars, xvars, mvars, hvars, ivars >>
    \/ ReassignProject /\ UNCHANGED << uvars, fvars, tvars, evars, gvars, rvars, dvars, xvars, mvars, hvars, ivars >>
    \/ ReassignNone /\ UNCHANGED << uvars, fvars, tvars, evars, gvars, rvars, dvars, xvars, mvars, hvars, ivars >>
    \/ AssignOrientation /\ UNCHANGED << uvars, fvars, tvars, evars, gvars, rvars, dvars, xvars, mvars, hvars, ivars >>
    \/ PopulateProjectAssets /\ UNCHANGED << uvars, fvars, tvars, evars, gvars, rvars, dvars, xvars, mvars, hvars, ivars >>
    \/ PopulateProjectSources /\ UNCHANGED << uvars, fvars, tvars, evars, gvars, rvars, dvars, xvars, mvars, hvars, ivars >>
    \/ FilterTargets /\ UNCHANGED << uvars, fvars, tvars, evars, gvars, rvars, dvars, xvars, mvars, hvars, ivars >>
    \/ WriteProject /\ UNCHANGED << uvars, fvars, tvars, evars, gvars, rvars, dvars, xvars, mvars, hvars, ivars >>

SpecProject == AllInit /\ [][ProjectNext]_vars

\* the calls made on the UUID services of successive runs
UUIDNext ==
    \/ NewService /\ UNCHANGED << pvars, fvars, tvars, evars, gvars, rvars, dvars, xvars, mvars, hvars, ivars >>
    \/ getAppleUUID /\ UNCHANGED << pvars, fvars, tvars, evars, gvars, rvars, dvars, xvars, mvars, hvars, ivars >>
    \/ getWindowsUUID /\ UNCHANGED << pvars, fvars, tvars, evars, gvars, rvars, dvars, xvars, mvars, hvars, ivars >>
    \/ _compute_Apple_UUID_ /\ UNCHANGED << pvars, fvars, tvars, evars, gvars, rvars, dvars, xvars, mvars, hvars, ivars >>
    \/ _compute_Windows_UUID_ /\ UNCHANGED << pvars, fvars, tvars, evars, gvars, rvars, dvars, xvars, mvars, hvars, ivars >>

SpecUUID == AllInit /\ [][UUIDNext]_vars

\* one call of applyPrefix on any prefix and identifier
PrefixInit == PInit /\ UInit /\ FInit /\ TInit /\ ERest /\ GRest /\ RRest /\ DRest /\ XRest /\ MRest /\ HRest /\ IRest

PrefixNext == ApplyPrefix /\ UNCHANGED << pvars, uvars, tvars, evars, gvars, rvars, dvars, xvars, mvars, hvars, ivars >>

SpecPrefix == PrefixInit /\ [][PrefixNext]_vars

\* the files of one run inserted into a filetree
TreeNext == InsertFile /\ UNCHANGED << pvars, uvars, fvars, evars, gvars, rvars, dvars, xvars, mvars, hvars, ivars >>

SpecTree == AllInit /\ [][TreeNext]_vars

\* one call of place_entries on any object and entries
EntriesInit == PInit /\ UInit /\ FRest /\ TInit /\ EInit /\ GRest /\ RRest /\ DRest /\ XRest /\ MRest /\ HRest /\ IRest

EntriesNext == PlaceEntries /\ UNCHANGED << pvars, uvars, fvars, tvars, gvars, rvars, dvars, xvars, mvars, hvars, ivars >>

SpecEntries == EntriesInit /\ [][EntriesNext]_vars

\* one top-level call of build_groups or build_filters on any source tree
GroupsInit == PInit /\ UInit /\ FRest /\ TInit /\ ERest /\ GInit /\ RRest /\ DRest /\ XRest /\ MRest /\ HRest /\ IRest

GroupsNext ==
    \/ BuildGroups /\ UNCHANGED << pvars, uvars, fvars, tvars, evars, rvars, dvars, xvars, mvars, hvars, ivars >>
    \/ BuildFilters /\ UNCHANGED << pvars, uvars, fvars, tvars, evars, rvars, dvars, xvars, mvars, hvars, ivars >>

SpecGroups == GroupsInit /\ [][GroupsNext]_vars

\* one call of file_replace on any file and mapping
ReplaceInit == PInit /\ UInit /\ FRest /\ TInit /\ ERest /\ GRest /\ RInit /\ DRest /\ XRest /\ MRest /\ HRest /\ IRest

ReplaceNext == FileReplace /\ UNCHANGED << pvars, uvars, fvars, tvars, evars, gvars, dvars, xvars, mvars, hvars, ivars >>

SpecReplace == ReplaceInit /\ [][ReplaceNext]_vars

\* one call of file_replace_after on any file and mapping
AfterInit == PInit /\ UInit /\ FRest /\ TInit /\ ERest /\ GRest /\ AInit /\ DRest /\ XRest /\ MRest /\ HRest /\ IRest

AfterNext == FileReplaceAfter /\ UNCHANGED << pvars, uvars, fvars, tvars, evars, gvars, dvars, xvars, mvars, hvars, ivars >>

SpecAfter == AfterInit /\ [][AfterNext]_vars

\* one call of directory_replace on any directory, with or without filter
DirectoryInit == PInit /\ UInit /\ FRest /\ TInit /\ ERest /\ GRest /\ RRest /\ DInit /\ XRest /\ MRest /\ HRest /\ IRest

DirectoryNext ==
    DirectoryReplace /\ UNCHANGED << pvars, uvars, fvars, tvars, evars, gvars, rvars, xvars, mvars, hvars, ivars >>

SpecDirectory == DirectoryInit /\ [][DirectoryNext]_vars

\* one run of a generator over any source tree and asset list
SourcesInit == PInit /\ UInit /\ FRest /\ TInit /\ ERest /\ GRest /\ RRest /\ DRest /\ XInit /\ MRest /\ HRest /\ IRest

SourcesNext ==
    \/ PopulateAssets /\ UNCHANGED << pvars, uvars, fvars, tvars, evars, gvars, rvars, dvars, mvars, hvars, ivars >>
    \/ PopulateSources /\ UNCHANGED << pvars, uvars, fvars, tvars, evars, gvars, rvars, dvars, mvars, hvars, ivars >>
    \/ VisualStudioSources /\ UNCHANGED << pvars, uvars, fvars, tvars, evars, gvars, rvars, dvars, mvars, hvars, ivars >>
    \/ AndroidSources /\ UNCHANGED << pvars, uvars, fvars, tvars, evars, gvars, rvars, dvars, mvars, hvars, ivars >>

SpecSources == SourcesInit /\ [][SourcesNext]_vars

\* one run of a generator on any config
MakeInit == PInit /\ UInit /\ FRest /\ TInit /\ ERest /\ GRest /\ RRest /\ DRest /\ XRest /\ MInit /\ HRest /\ IRest

MakeNext ==
    \/ AndroidMakeStep /\ UNCHANGED << pvars, uvars, fvars, tvars, evars, gvars, rvars, dvars, xvars, hvars, ivars >>
    \/ AppleMakeStep /\ UNCHANGED << pvars, uvars, fvars, tvars, evars, gvars, rvars, dvars, xvars, hvars, ivars >>
    \/ WindowsMakeStep /\ UNCHANGED << pvars, uvars, fvars, tvars, evars, gvars, rvars, dvars, xvars, hvars, ivars >>

SpecMake == MakeInit /\ [][MakeNext]_vars

\* one call of filter_targets on any targets and section
FilterInit == PInit /\ UInit /\ FRest /\ TInit /\ ERest /\ GRest /\ RRest /\ DRest /\ XRest /\ MRest /\ HInit /\ IRest

FilterNext ==
    RetargetBuilds /\ UNCHANGED << pvars, uvars, fvars, tvars, evars, gvars, rvars, dvars, xvars, mvars, ivars >>

SpecFilter == FilterInit /\ [][FilterNext]_vars

\* the Apple and the Android generator, in either order, on one configuration
IncludesInit == PInit /\ UInit /\ FRest /\ TInit /\ ERest /\ GRest /\ RRest /\ DRest /\ XRest /\ MRest /\ HRest /\ IInit

IncludesNext ==
    \/ AppleIncludes /\ UNCHANGED << pvars, uvars, fvars, tvars, evars, gvars, rvars, dvars, xvars, mvars, hvars >>
    \/ AndroidIncludes /\ UNCHANGED << pvars, uvars, fvars, tvars, evars, gvars, rvars, dvars, xvars, mvars, hvars >>

SpecIncludes == IncludesInit /\ [][IncludesNext]_vars

=============================================================================
